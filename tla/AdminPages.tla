----------------------------- MODULE AdminPages -----------------------------
(***************************************************************************)
(* The list of users of the superuser: sendAdminUsersPage counts the users *)
(* and then reads one page of them, newest first, while others sign up;    *)
(* its buttons lead to the page before and the page after.  User n is the  *)
(* n-th that signed up.                                                    *)
(***************************************************************************)
EXTENDS Integers

CONSTANTS
  UsersPerPage,  \* pageSize
  MaxUsers       \* bound

ASSUME PagesAssumption == UsersPerPage \in Nat \ {0} /\ MaxUsers \in Nat

VARIABLES
  registered,  \* how many users there are
  stage,       \* where sendAdminUsersPage is
  asked,       \* page, as asked for
  typed,       \* by command, with a number
  total,       \* COUNT(*)
  page, pages, \* the header of the message
  list,        \* the users in it
  buttons,     \* pages that any message so far has a button for
  walk,        \* history: since page 1 only Next has been pressed
  start,       \* history: users at the beginning of the walk
  seen,        \* history: users listed in the walk
  spilled      \* history: a signup came between the two last queries

pageVars ==
  <<registered, stage, asked, typed, total, page, pages, list, buttons, walk, start,
    seen, spilled>>

Larger(a, b)  == IF a > b THEN a ELSE b
Smaller(a, b) == IF a < b THEN a ELSE b

-----------------------------------------------------------------------------
SignUp ==
  /\ registered < MaxUsers
  /\ registered' = registered + 1
  /\ spilled' = (spilled \/ stage = "list")
  /\ UNCHANGED <<stage, asked, typed, total, page, pages, list, buttons, walk, start, seen>>

(* /admin_users, with a page or without.                                   *)
AskPage(p) ==
  /\ stage = "idle"
  /\ stage' = "count" /\ asked' = p /\ typed' = TRUE
  /\ walk' = (p = 1) /\ start' = registered /\ seen' = {}
  /\ UNCHANGED <<registered, total, page, pages, list, buttons, spilled>>

(* A button, of the last message or an older one.                          *)
Press(p) ==
  /\ stage = "idle" /\ p \in buttons
  /\ stage' = "count" /\ asked' = p /\ typed' = FALSE
  /\ walk' = (walk /\ p = page + 1)
  /\ UNCHANGED <<registered, total, page, pages, list, buttons, start, seen, spilled>>

CountUsers ==
  /\ stage = "count"
  /\ stage' = "list" /\ total' = registered /\ spilled' = FALSE
  /\ UNCHANGED <<registered, asked, typed, page, pages, list, buttons, walk, start, seen>>

(* Mutant of Slice: pages are counted from 0.                              *)
SliceFromZero(p) ==
  Larger(registered - (p + 1) * UsersPerPage + 1, 1) .. registered - p * UsersPerPage

(* ORDER BY created_at DESC, LIMIT and OFFSET.                             *)
Slice(p) ==
  Larger(registered - p * UsersPerPage + 1, 1) .. registered - (p - 1) * UsersPerPage

(* Mutant of Pages: one more when the last page is full.                   *)
PagesFloor(n) == n \div UsersPerPage + 1

(* math.Ceil, and at least one.                                            *)
Pages(n) == Larger((n + UsersPerPage - 1) \div UsersPerPage, 1)

SendPage ==
  /\ stage = "list"
  /\ stage' = "idle"
  /\ list' = Slice(asked)
  /\ pages' = Pages(total)
  /\ page' = Smaller(asked, pages')
  /\ buttons' = buttons \cup {p \in {page' - 1, page' + 1} : p \in 1 .. pages'}
  /\ seen' = seen \cup list'
  /\ UNCHANGED <<registered, asked, typed, total, walk, start, spilled>>

PagesInit ==
  /\ registered \in 0 .. MaxUsers /\ stage = "idle" /\ asked = 0 /\ typed = TRUE
  /\ total = 0 /\ page = 0 /\ pages = 0 /\ list = {} /\ buttons = {}
  /\ walk = FALSE /\ start = 0 /\ seen = {} /\ spilled = FALSE

PagesNext ==
  \/ SignUp \/ CountUsers \/ SendPage
  \/ \E p \in 1 .. MaxUsers : AskPage(p) \/ Press(p)

PagesSpec == PagesInit /\ [][PagesNext]_pageVars

-----------------------------------------------------------------------------
(* A button leads to a page that exists: it lists users under its own      *)
(* number, however old the message is.  A page past the end that is typed  *)
(* is empty, under the number of the last.                                 *)
ButtonsLead ==
  stage = "idle" /\ page > 0 =>
    IF list = {} THEN total = 0 \/ (typed /\ asked > pages)
                 ELSE page = asked \/ spilled

(* Next from page 1 to a page without it has shown all who were registered *)
(* at the beginning, whoever signs up meanwhile: they push the others      *)
(* back, to pages that come; unless the signup comes between the COUNT and *)
(* the SELECT of the last page.                                            *)
WalkSeesAll ==
  stage = "idle" /\ walk /\ page = pages /\ ~spilled => 1 .. start \subseteq seen
=============================================================================
