------------------------------ MODULE Mailbox ------------------------------
(***************************************************************************)
(* What the daemon's event exchange promises, with no thread, lock or      *)
(* condition variable in it: a mailbox with one place.                     *)
(*                                                                         *)
(* A letter is put at most once.  Putting a letter replaces whatever lies  *)
(* in the box, so a letter may be lost, but the letter in the box is       *)
(* always the last one put, it can be removed only once, and a removed     *)
(* letter never comes back.                                                *)
(***************************************************************************)
CONSTANTS
    Posts,  \* the letters
    Exit,   \* the request that asks the readers to stop
    Empty   \* no letter

VARIABLES
    box,    \* the content of the box
    posted, \* the letters put so far
    taken   \* the letters removed so far

mvars == <<box, posted, taken>>

MailInit ==
    /\ box = Empty
    /\ posted = {}
    /\ taken = {}

\* A new letter goes into the box, over the old content.
Put(p) ==
    /\ p \notin posted
    /\ box' = p
    /\ posted' = posted \cup {p}
    /\ UNCHANGED taken

\* The stop request goes into the box, over the old content.
PutExit ==
    /\ box' = Exit
    /\ UNCHANGED <<posted, taken>>

\* A reader removes the letter in the box.  It never removes the stop request.
Remove ==
    /\ box \in Posts
    /\ box \notin taken
    /\ taken' = taken \cup {box}
    /\ box' = Empty
    /\ UNCHANGED posted

MailNext == (\E p \in Posts : Put(p)) \/ PutExit \/ Remove

MailSpec == MailInit /\ [][MailNext]_mvars
=============================================================================
