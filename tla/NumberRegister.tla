--------------------------- MODULE NumberRegister ---------------------------
(***************************************************************************)
(* A register of numbered documents, without the hints, locks, requests    *)
(* and edits by which numbers are found (requirement REG-027).  A request  *)
(* enters all its documents at once, in one registry and on one date.      *)
(* Nothing is taken out or changed, no number is given twice, and after    *)
(* every entry each number is 1, one that was chosen to start from, or the *)
(* one after a number in use.  RegistryNumbering implements this           *)
(* specification.                                                          *)
(***************************************************************************)
EXTENDS Integers

CONSTANTS Registries, Prefix, Start

VARIABLES register,  \* documents with their number, registry and year of registration
          chosen     \* the numbers, for one year or for any (0), to start from

Unique(docs) == \A x, y \in docs : x.number = y.number => x = y

Starts(starts, number) ==
    number.n = 1 \/ \E h \in starts : /\ h.prefix = number.prefix /\ h.n = number.n
                                     /\ h.year \in {0, number.year}

Consecutive(docs, starts) ==
    \A x \in docs : \/ Starts(starts, x.number)
                    \/ \E y \in docs : y.number = [x.number EXCEPT !.n = @ - 1]

Init ==
    /\ register = {}
    /\ chosen = {[prefix |-> Prefix[r], year |-> 0, n |-> Start[r]] : r \in Registries}

Enter(r) ==
    LET new == register' \ register IN
    /\ register \subseteq register'
    /\ \A x \in new : x.registry = r /\ x.number.prefix = Prefix[r]
    /\ \A x, y \in new : x.registered = y.registered
    /\ Unique(register')
    /\ Consecutive(register', chosen)
    /\ UNCHANGED chosen

\* Somebody edits a registry and says from which number it goes on.
Choose(start) ==
    /\ chosen' = chosen \cup {start}
    /\ UNCHANGED register

Next == \E r \in Registries :
           \/ Enter(r)
           \/ \E start \in chosen' : start.prefix = Prefix[r] /\ Choose(start)

Spec == Init /\ [][Next]_<<register, chosen>>
=============================================================================
