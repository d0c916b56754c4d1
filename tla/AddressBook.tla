----------------------------- MODULE AddressBook -----------------------------
(***************************************************************************)
(* What the device base promises the rest of the host: a device is known   *)
(* under one short address at a time, no two devices under the same one,   *)
(* and it is forgotten by a restart of the host only.                      *)
(***************************************************************************)
CONSTANTS Ieee, Addr, Unknown, Absent

VARIABLE book   \* the short address of each device, Unknown or Absent

Init == book = [i \in Ieee |-> Absent]

Free(a) == \A i \in Ieee : book[i] # a

\* A device associates: its short address is not known yet.
Meet(i) == book[i] = Absent /\ book' = [book EXCEPT ![i] = Unknown]

\* A device is heard of under an address no other device has.
Move(i, a) == book[i] # Absent /\ Free(a) /\ book' = [book EXCEPT ![i] = a]

\* The host restarts with an empty book, and then reads back what it saved.
Forget    == book' = [i \in Ieee |-> Absent]
Recall(i, a) == book[i] = Absent /\ Free(a) /\ book' = [book EXCEPT ![i] = a]

\* Every step changes the book.
Next == /\ book' # book
        /\ \/ Forget
           \/ \E i \in Ieee : Meet(i)
           \/ \E i \in Ieee, a \in Addr : Move(i, a) \/ Recall(i, a)

Spec == Init /\ [][Next]_book
=============================================================================
