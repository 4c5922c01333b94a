---------------------------- MODULE SessionBook ----------------------------
(***************************************************************************)
(* What the refresh tokens promise their user: a book of sessions.  A      *)
(* session is opened once, has a fixed end, is refreshed only while it is  *)
(* open, and once ended stays ended.  Opening one may end one other, the   *)
(* session the cap evicts, in the same step.  RefreshTokens implements it. *)
(***************************************************************************)
EXTENDS Naturals

VARIABLE book       \* the sessions opened so far: session -> [turns, open, until]

Ended(entry) == [entry EXCEPT !.open = FALSE]

Init == book = [s \in {} |-> {}]

\* A session nobody had, open and not yet refreshed, with an end of its own.
Open ==
    \E s \in DOMAIN book' \ DOMAIN book :
        /\ DOMAIN book' = DOMAIN book \union {s}
        /\ book'[s] = [turns |-> 0, open |-> TRUE, until |-> book'[s].until]
        /\ \/ \A t \in DOMAIN book : book'[t] = book[t]
           \/ \E e \in DOMAIN book :
                 /\ book'[e] = Ended(book[e])
                 /\ \A t \in DOMAIN book \ {e} : book'[t] = book[t]

Refresh(s) ==
    /\ book[s].open
    /\ book' = [book EXCEPT ![s].turns = @ + 1]

\* One session, or all but one, or all: every entry stays or is ended.
End ==
    /\ DOMAIN book' = DOMAIN book
    /\ \A s \in DOMAIN book : book'[s] \in {book[s], Ended(book[s])}

Next == End \/ Open \/ \E s \in DOMAIN book : Refresh(s)

Spec == Init /\ [][Next]_book
=============================================================================
