----------------------- MODULE RegistryNumberingProofs -----------------------
(***************************************************************************)
(* Theorems about RegistryNumbering, for any registries, prefixes, starts, *)
(* clerks, edits and bounds: every number in use is one that was chosen or *)
(* follows another, whatever is edited; and a number that a registry with  *)
(* a prefix of its own reserves is free until the registry is edited.      *)
(***************************************************************************)
EXTENDS RegistryNumbering, WellFoundedInduction, TLAPS

-----------------------------------------------------------------------------
(* The highest number used.                                                *)

LEMMA MaximumExists ==
    ASSUME NEW k \in Nat, NEW S, S \subseteq 0 .. k, S # {}
    PROVE  \E m \in S : \A n \in S : n =< m
<1> DEFINE T == {k - m : m \in S}
<1>1. T \subseteq Nat /\ T # {}
  <2>1. \A m \in S : k - m \in Nat
    OBVIOUS
  <2> QED BY <2>1 DEF T
<1> HIDE DEF T
<1>2. PICK x \in T : \A y \in T : ~ (<<y, x>> \in OpToRel(<, Nat))
  BY <1>1, NatLessThanWellFounded, WFMin, Zenon
<1>3. x \in Nat
  BY <1>1
<1>4. ASSUME NEW y \in T, y < x PROVE FALSE
  <2>1. y \in Nat
    BY <1>1
  <2>2. <<y, x>> \in Nat \X Nat
    BY <1>3, <2>1
  <2>3. ~ (<<y, x>> \in OpToRel(<, Nat))
    BY <1>2
  <2> QED BY <1>4, <2>2, <2>3, Zenon DEF OpToRel
<1>5. \A y \in T : ~ (y < x)
  BY <1>4
<1>6. PICK m \in S : x = k - m
  BY <1>2 DEF T
<1>7. ASSUME NEW n \in S PROVE n =< m
  <2>1. k - n \in T
    BY DEF T
  <2>2. ~ (k - n < k - m)
    BY <1>5, <1>6, <2>1
  <2> QED BY <2>2
<1> QED BY <1>7

-----------------------------------------------------------------------------
(* Types.  A clerk at work has a registry; a reserved number is one.       *)

BusyClerk(row) ==
    /\ row.pc # "idle" => row.registry \in Registries /\ row.began \in 1 .. MaxYear
    /\ row.pc = "begun" => row.inserted = {}
    /\ row.pc = "reserved" => row.number \in Number

TypeInv ==
    /\ NumberingTypeOK
    /\ \A c \in Clerks : BusyClerk(clerk[c])
    /\ \A e \in Editors : editor[e].pc # "idle" => editor[e].registry \in Registries

LEMMA IdleRows ==
    /\ IdleClerk \in ClerkRow /\ IdleClerk.pc = "idle" /\ IdleClerk.inserted = {}
    /\ IdleEditor \in EditorRow /\ IdleEditor.pc = "idle"
    /\ \A r \in Registries : FirstHint(r) \in HintRow
<1>1. 0 \in 0 .. MaxYear /\ 0 \in 0 .. MaxYear + 1
  BY NumberingAssumption
<1>2. NoHint \in HintRow /\ \A r \in Registries : FirstHint(r) \in HintRow
  BY <1>1, NumberingAssumption DEF NoHint, FirstHint, HintRow, NoYear
<1>3. IdleClerk \in ClerkRow
  BY <1>1, <1>2 DEF IdleClerk, ClerkRow, NoYear
<1>4. IdleEditor \in EditorRow
  BY <1>2 DEF IdleEditor, EditorRow
<1> QED BY <1>2, <1>3, <1>4 DEF IdleClerk, IdleEditor

LEMMA FollowingHint == ASSUME NEW number \in Number PROVE Following(number) \in HintRow
BY NumberingAssumption DEF Number, Following, HintRow

LEMMA NumbersType == ASSUME register \subseteq DocumentRow PROVE Numbers \subseteq Number
BY DEF Numbers, DocumentRow

\* A clerk's row is replaced.
LEMMA ClerkSet ==
    ASSUME clerk \in [Clerks -> ClerkRow], NEW c \in Clerks, NEW row \in ClerkRow,
           clerk' = [clerk EXCEPT ![c] = row]
    PROVE  /\ clerk' \in [Clerks -> ClerkRow] /\ clerk'[c] = row
           /\ \A o \in Clerks : o # c => clerk'[o] = clerk[o]
OBVIOUS

-----------------------------------------------------------------------------
(* Numbers without a gap.                                                  *)

\* A number that leaves no gap among N, when C are the numbers to start from.
Continues(N, C, x) == Book!Starts(C, x) \/ [x EXCEPT !.n = @ - 1] \in N

Bounded(N)  == \E k \in Nat : \A x \in N : x.n =< k
Dense(N, C) == Bounded(N) /\ \A x \in N : Continues(N, C, x)

\* A hint of prefix p that leaves none, in the years in which it is good.
HintContinues(N, C, p, h) ==
    \A y \in 1 .. MaxYear :
        h.year \in {NoYear, y} => Continues(N, C, [prefix |-> p, year |-> y, n |-> h.n])

LEMMA ContinuesMore ==
    ASSUME NEW A, NEW B, A \subseteq B, NEW C, NEW D, C \subseteq D
    PROVE  /\ \A x : Continues(A, C, x) => Continues(B, D, x)
           /\ \A p, h : HintContinues(A, C, p, h) => HintContinues(B, D, p, h)
<1>1. \A x : Continues(A, C, x) => Continues(B, D, x)
  BY DEF Continues, Book!Starts
<1> QED BY <1>1 DEF HintContinues

LEMMA DenseUnion ==
    ASSUME NEW C, NEW A, A \subseteq Number, NEW B, B \subseteq Number, Dense(A, C), Dense(B, C)
    PROVE  Dense(A \cup B, C)
<1>1. PICK a \in Nat : \A x \in A : x.n =< a
  BY DEF Dense, Bounded
<1>2. PICK b \in Nat : \A x \in B : x.n =< b
  BY DEF Dense, Bounded
<1>3. \A x \in A \cup B : x.n \in Nat
  BY DEF Number
<1>4. a + b \in Nat /\ \A x \in A \cup B : x.n =< a + b
  BY <1>1, <1>2, <1>3
<1>5. \A x : (Continues(A, C, x) => Continues(A \cup B, C, x))
          /\ (Continues(B, C, x) => Continues(A \cup B, C, x))
  BY ContinuesMore
<1> QED BY <1>4, <1>5 DEF Dense, Bounded

LEMMA DenseAdd ==
    ASSUME NEW A, A \subseteq Number, NEW C, Dense(A, C), NEW x \in Number, Continues(A, C, x)
    PROVE  Dense(A \cup {x}, C)
<1>1. PICK a \in Nat : \A y \in A : y.n =< a
  BY DEF Dense, Bounded
<1>2. x.n \in Nat /\ \A y \in A : y.n \in Nat
  BY DEF Number
<1>3. a + x.n \in Nat /\ \A y \in A \cup {x} : y.n =< a + x.n
  BY <1>1, <1>2
<1>4. \A y : Continues(A, C, y) => Continues(A \cup {x}, C, y)
  BY ContinuesMore
<1> QED BY <1>3, <1>4 DEF Dense, Bounded

LEMMA DenseNothing == \A C : Dense({}, C)
<1>1. 0 \in Nat
  OBVIOUS
<1> QED BY <1>1 DEF Dense, Bounded

LEMMA DenseMore ==
    ASSUME NEW A, NEW C, NEW D, C \subseteq D, Dense(A, C) PROVE Dense(A, D)
<1>1. \A x : Continues(A, C, x) => Continues(A, D, x)
  BY ContinuesMore
<1> QED BY <1>1 DEF Dense

\* The hint that an insert leaves.
LEMMA FollowingContinues ==
    ASSUME NEW A, NEW C, NEW x \in Number, x \in A
    PROVE  HintContinues(A, C, x.prefix, Following(x))
<1> SUFFICES ASSUME NEW y \in 1 .. MaxYear, Following(x).year \in {NoYear, y}
             PROVE  Continues(A, C, [prefix |-> x.prefix, year |-> y, n |-> Following(x).n])
  BY DEF HintContinues
<1>1. Following(x).year = x.year /\ Following(x).n = x.n + 1 /\ x.n \in Nat
      /\ x.year \in 1 .. MaxYear
  BY DEF Following, Number
<1>2. x.year = y
  BY <1>1, NumberingAssumption DEF NoYear
<1> DEFINE z == [prefix |-> x.prefix, year |-> y, n |-> Following(x).n]
<1>3. [z EXCEPT !.n = @ - 1] = [prefix |-> x.prefix, year |-> x.year, n |-> x.n]
  BY <1>1, <1>2
<1>4. x = [prefix |-> x.prefix, year |-> x.year, n |-> x.n]
  BY DEF Number
<1>5. [z EXCEPT !.n = @ - 1] \in A
  BY <1>3, <1>4
<1> QED BY <1>5 DEF Continues

\* The scan of nextRegistryNumber finds the last number, if there is one.
LEMMA ScanFindsLast ==
    ASSUME register \subseteq DocumentRow, year \in 1 .. MaxYear, Bounded(Numbers),
           NEW r \in Registries
    PROVE  /\ AfterLast(r) \in Nat \ {0}
           /\ AfterLast(r) = 1 \/ [prefix |-> Prefix[r], year |-> year, n |-> AfterLast(r) - 1]
                                     \in Numbers
<1> DEFINE S == UsedThisYear(r) \cup {0}
           m == CHOOSE n \in S : \A i \in UsedThisYear(r) : i =< n
<1>1. ASSUME NEW n \in UsedThisYear(r)
      PROVE  n \in Nat \ {0} /\ [prefix |-> Prefix[r], year |-> year, n |-> n] \in Numbers
  <2>1. PICK x \in register : x.number.n = n /\ x.number.prefix = Prefix[r] /\ x.number.year = year
    BY DEF UsedThisYear
  <2>2. x.number \in Number /\ x.number \in Numbers
    BY <2>1 DEF DocumentRow, Numbers
  <2>3. x.number = [prefix |-> Prefix[r], year |-> year, n |-> n] /\ n \in Nat \ {0}
    BY <2>1, <2>2 DEF Number
  <2> QED BY <2>2, <2>3
<1>2. PICK k \in Nat : \A x \in Numbers : x.n =< k
  BY DEF Bounded
<1>3. S \subseteq 0 .. k /\ S # {}
  <2>1. \A n \in UsedThisYear(r) : n \in Nat /\ n =< k
    BY <1>1, <1>2
  <2> QED BY <1>2, <2>1
<1>4. \E n \in S : \A i \in S : i =< n
  <2> HIDE DEF S
  <2> QED BY <1>2, <1>3, MaximumExists
<1>5. \E n \in S : \A i \in UsedThisYear(r) : i =< n
  BY <1>4
<1>6. m \in S
  <2> HIDE DEF S
  <2> QED BY <1>5
<1>7. AfterLast(r) = 1 + m
  BY DEF AfterLast
<1> HIDE DEF m
<1>8. m = 0 \/ (m \in Nat \ {0} /\ [prefix |-> Prefix[r], year |-> year, n |-> m] \in Numbers)
  BY <1>1, <1>6
<1>9. AfterLast(r) \in Nat \ {0} /\ AfterLast(r) - 1 = m
  BY <1>7, <1>8
<1> QED BY <1>7, <1>8, <1>9

\* The next number of a registry continues what the request sees.
LEMMA NextContinues ==
    ASSUME register \subseteq DocumentRow, year \in 1 .. MaxYear, Bounded(Numbers),
           NEW r \in Registries, NEW N, Numbers \subseteq N, NEW C,
           NEW h \in HintRow, HintContinues(N, C, Prefix[r], h)
    PROVE  /\ NextNumber(r, h) \in Number
           /\ NextNumber(r, h).prefix = Prefix[r]
           /\ Continues(N, C, NextNumber(r, h))
<1> DEFINE n == IF Usable(h) THEN h.n ELSE AfterLast(r)
           x == NextNumber(r, h)
<1>1. x = [prefix |-> Prefix[r], year |-> year, n |-> n]
  BY DEF NextNumber
<1>2. AfterLast(r) \in Nat \ {0}
  BY ScanFindsLast
<1>3. n \in Nat \ {0}
  BY <1>2 DEF HintRow
<1>4. x \in Number /\ x.prefix = Prefix[r]
  BY <1>1, <1>3 DEF Number
<1>5. CASE Usable(h)
  <2>1. x = [prefix |-> Prefix[r], year |-> year, n |-> h.n] /\ h.year \in {NoYear, year}
    BY <1>1, <1>5 DEF Usable
  <2>2. Continues(N, C, [prefix |-> Prefix[r], year |-> year, n |-> h.n])
    BY <2>1 DEF HintContinues
  <2> QED BY <1>4, <2>1, <2>2
<1>6. CASE ~Usable(h)
  <2>1. x = [prefix |-> Prefix[r], year |-> year, n |-> AfterLast(r)]
    BY <1>1, <1>6
  <2>2. CASE AfterLast(r) = 1
    <3>1. x.n = 1
      BY <2>1, <2>2
    <3> QED BY <1>4, <3>1 DEF Continues, Book!Starts
  <2>3. CASE AfterLast(r) # 1
    <3>1. [prefix |-> Prefix[r], year |-> year, n |-> AfterLast(r) - 1] \in Numbers
      BY <2>3, ScanFindsLast
    <3>2. [x EXCEPT !.n = @ - 1] = [prefix |-> Prefix[r], year |-> year, n |-> AfterLast(r) - 1]
      BY <2>1
    <3> QED BY <1>4, <3>1, <3>2 DEF Continues
  <2> QED BY <2>2, <2>3
<1> QED BY <1>5, <1>6

-----------------------------------------------------------------------------
(* The inductive invariant: what is committed has no gap, what a request   *)
(* adds to it leaves none, and every hint, also the one an editor read,    *)
(* continues committed numbers or was chosen.                              *)

ClerkContinues(row, N, C) ==
    /\ row.pc # "idle" => Dense(N \cup row.inserted, C)
    /\ row.pc = "reserved" =>
          row.number.prefix = Prefix[row.registry] /\ Continues(N \cup row.inserted, C, row.number)
    /\ row.pc = "inserted" =>
          HintContinues(N \cup row.inserted, C, Prefix[row.registry], row.hint)

NumberingInv ==
    /\ TypeInv
    /\ Dense(Numbers, Chosen)
    /\ \A r \in Registries : HintContinues(Numbers, Chosen, Prefix[r], hint[r])
    /\ \A e \in Editors : editor[e].pc = "loaded" /\ ~editor[e].supplied =>
          HintContinues(Numbers, Chosen, Prefix[editor[e].registry], editor[e].hint)
    /\ \A c \in Clerks : ClerkContinues(clerk[c], Numbers, Chosen)

\* What was chosen depends on the edits alone, and stays.
LEMMA ChosenSame == ASSUME UNCHANGED editor PROVE Chosen' = Chosen
BY DEF Chosen

LEMMA IdleContinues == \A N, C : BusyClerk(IdleClerk) /\ ClerkContinues(IdleClerk, N, C)
BY DEF IdleClerk, BusyClerk, ClerkContinues

\* A request goes on by itself.
LEMMA ClerkStep ==
    ASSUME NumberingInv, NEW c \in Clerks, NEW row \in ClerkRow, BusyClerk(row),
           ClerkContinues(row, Numbers, Chosen), clerk' = [clerk EXCEPT ![c] = row],
           UNCHANGED <<year, hint, register, editor>>
    PROVE  NumberingInv'
<1>1. /\ clerk' \in [Clerks -> ClerkRow] /\ clerk'[c] = row
      /\ \A o \in Clerks : o # c => clerk'[o] = clerk[o]
  BY ClerkSet DEF NumberingInv, TypeInv, NumberingTypeOK
<1>2. Numbers' = Numbers /\ Chosen' = Chosen
  BY ChosenSame DEF Numbers
<1>3. TypeInv'
  BY <1>1 DEF NumberingInv, TypeInv, NumberingTypeOK
<1>4. \A o \in Clerks : ClerkContinues(clerk'[o], Numbers', Chosen')
  BY <1>1, <1>2 DEF NumberingInv
<1> QED BY <1>2, <1>3, <1>4 DEF NumberingInv

LEMMA StepBegin ==
    ASSUME NumberingInv, NEW c \in Clerks, NEW r \in Registries, Begin(c, r)
    PROVE  NumberingInv'
<1> DEFINE row == [IdleClerk EXCEPT !.pc = "begun", !.registry = r, !.began = year]
<1>1. year \in 1 .. MaxYear
  BY DEF NumberingInv, TypeInv, NumberingTypeOK
<1>2. row \in ClerkRow
  <2>1. year \in 0 .. MaxYear
    BY <1>1
  <2>2. IdleClerk \in ClerkRow
    BY IdleRows
  <2> QED BY <2>1, <2>2 DEF ClerkRow
<1>3. row.pc = "begun" /\ row.registry = r /\ row.began = year /\ row.inserted = {}
  BY DEF IdleClerk
<1>4. clerk' = [clerk EXCEPT ![c] = row] /\ UNCHANGED <<year, hint, register, editor>>
  BY DEF Begin
<1> HIDE DEF row
<1>5. BusyClerk(row)
  BY <1>1, <1>3 DEF BusyClerk
<1>6. ClerkContinues(row, Numbers, Chosen)
  <2>1. Numbers \cup row.inserted = Numbers
    BY <1>3
  <2>2. Dense(Numbers, Chosen)
    BY DEF NumberingInv
  <2> QED BY <1>3, <2>1, <2>2 DEF ClerkContinues
<1> QED BY <1>2, <1>4, <1>5, <1>6, ClerkStep

\* The registry and the hint with which a clerk reserves.
SeenHint(c) == IF clerk[c].pc = "begun" THEN hint[clerk[c].registry] ELSE clerk[c].hint

LEMMA StepReserve == ASSUME NumberingInv, NEW c \in Clerks, Reserve(c) PROVE NumberingInv'
<1> DEFINE old == clerk[c]
           r   == old.registry
           x   == NextNumber(r, SeenHint(c))
           row == [old EXCEPT !.pc = "reserved", !.number = x]
           N   == Numbers \cup old.inserted
<1>1. old \in ClerkRow /\ BusyClerk(old) /\ ClerkContinues(old, Numbers, Chosen) /\ old.pc \in {"begun", "inserted"}
  BY DEF NumberingInv, TypeInv, NumberingTypeOK, Reserve, Reserved
<1>2. r \in Registries /\ old.began \in 1 .. MaxYear
  BY <1>1 DEF BusyClerk
<1>3. SeenHint(c) \in HintRow /\ HintContinues(N, Chosen, Prefix[r], SeenHint(c))
  <2>1. CASE old.pc = "begun"
    <3>1. N = Numbers
      BY <1>1, <2>1 DEF BusyClerk
    <3>2. SeenHint(c) = hint[r]
      BY <2>1 DEF SeenHint
    <3>3. hint[r] \in HintRow /\ HintContinues(Numbers, Chosen, Prefix[r], hint[r])
      BY <1>2 DEF NumberingInv, TypeInv, NumberingTypeOK
    <3> QED BY <3>1, <3>2, <3>3
  <2>2. CASE old.pc = "inserted"
    BY <1>1, <2>2 DEF ClerkContinues, SeenHint, ClerkRow
  <2> QED BY <1>1, <2>1, <2>2
<1>4. x \in Number /\ x.prefix = Prefix[r] /\ Continues(N, Chosen, x)
  <2>1. register \subseteq DocumentRow /\ year \in 1 .. MaxYear /\ Bounded(Numbers)
    BY DEF NumberingInv, TypeInv, NumberingTypeOK, Dense
  <2>2. Numbers \subseteq N
    OBVIOUS
  <2> HIDE DEF N, r
  <2> QED BY <1>2, <1>3, <2>1, <2>2, NextContinues
<1>5. clerk' = [clerk EXCEPT ![c] = row] /\ UNCHANGED <<year, hint, register, editor>>
  BY DEF Reserve, Reserved, SeenHint, NumberingInv, TypeInv, NumberingTypeOK
<1>6. Dense(N, Chosen)
  BY <1>1 DEF ClerkContinues
<1> HIDE DEF x
<1>7. row \in ClerkRow /\ row.pc = "reserved" /\ row.number = x /\ row.registry = r
      /\ row.began = old.began /\ row.inserted = old.inserted
  BY <1>1, <1>4 DEF ClerkRow
<1> HIDE DEF row, r, old
<1>8. BusyClerk(row)
  BY <1>2, <1>4, <1>7 DEF BusyClerk
<1>9. ClerkContinues(row, Numbers, Chosen)
  BY <1>4, <1>6, <1>7 DEF ClerkContinues
<1> QED BY <1>5, <1>7, <1>8, <1>9, ClerkStep

LEMMA StepInsert == ASSUME NumberingInv, NEW c \in Clerks, Insert(c) PROVE NumberingInv'
<1> DEFINE old == clerk[c]
           x   == old.number
           row == [old EXCEPT !.pc = "inserted", !.inserted = @ \cup {x}, !.hint = Following(x)]
<1>1. old \in ClerkRow /\ BusyClerk(old) /\ ClerkContinues(old, Numbers, Chosen) /\ old.pc = "reserved"
  BY DEF NumberingInv, TypeInv, NumberingTypeOK, Insert
<1>2. CASE x \in Numbers \cup old.inserted
  <2>1. clerk' = [clerk EXCEPT ![c] = IdleClerk] /\ UNCHANGED <<year, hint, register, editor>>
    BY <1>2 DEF Insert
  <2> QED BY <2>1, IdleRows, IdleContinues, ClerkStep
<1>3. CASE ~ (x \in Numbers \cup old.inserted)
  <2>1. clerk' = [clerk EXCEPT ![c] = row] /\ UNCHANGED <<year, hint, register, editor>>
    BY <1>3 DEF Insert, NumberingInv, TypeInv, NumberingTypeOK
  <2>2. /\ x \in Number /\ Following(x) \in HintRow /\ x.prefix = Prefix[old.registry]
        /\ old.registry \in Registries /\ old.began \in 1 .. MaxYear
    BY <1>1, FollowingHint DEF BusyClerk, ClerkContinues
  <2>3. Dense(Numbers \cup old.inserted, Chosen) /\ Continues(Numbers \cup old.inserted, Chosen, x)
    BY <1>1 DEF ClerkContinues
  <2> HIDE DEF x
  <2>4. row \in ClerkRow /\ row.pc = "inserted" /\ row.inserted = old.inserted \cup {x}
        /\ row.registry = old.registry /\ row.began = old.began /\ row.hint = Following(x)
    BY <1>1, <2>2 DEF ClerkRow
  <2> HIDE DEF row, old
  <2>5. BusyClerk(row)
    BY <2>2, <2>4 DEF BusyClerk
  <2>6. Numbers \cup row.inserted = (Numbers \cup old.inserted) \cup {x}
    BY <2>4
  <2>7. Dense((Numbers \cup old.inserted) \cup {x}, Chosen)
    <3>1. Numbers \cup old.inserted \subseteq Number
      BY <1>1, NumbersType DEF ClerkRow, NumberingInv, TypeInv, NumberingTypeOK
    <3> QED BY <2>2, <2>3, <3>1, DenseAdd
  <2>8. HintContinues((Numbers \cup old.inserted) \cup {x}, Chosen, x.prefix, Following(x))
    BY <2>2, FollowingContinues
  <2>9. ClerkContinues(row, Numbers, Chosen)
    BY <2>2, <2>4, <2>6, <2>7, <2>8 DEF ClerkContinues
  <2> QED BY <2>1, <2>4, <2>5, <2>9, ClerkStep
<1> QED BY <1>2, <1>3

LEMMA StepAbort == ASSUME NumberingInv, NEW c \in Clerks, Abort(c) PROVE NumberingInv'
BY IdleRows, IdleContinues, ClerkStep DEF Abort

\* A request stays without a gap when more is chosen.
LEMMA ClerkMore ==
    ASSUME NEW N, NEW C, NEW D, C \subseteq D, NEW row, ClerkContinues(row, N, C)
    PROVE  ClerkContinues(row, N, D)
<1> DEFINE A == N \cup row.inserted
<1>1. /\ row.pc # "idle" => Dense(A, C)
      /\ row.pc = "reserved" =>
            row.number.prefix = Prefix[row.registry] /\ Continues(A, C, row.number)
      /\ row.pc = "inserted" => HintContinues(A, C, Prefix[row.registry], row.hint)
  BY DEF ClerkContinues
<1>2. /\ Dense(A, C) => Dense(A, D)
      /\ Continues(A, C, row.number) => Continues(A, D, row.number)
      /\ HintContinues(A, C, Prefix[row.registry], row.hint)
           => HintContinues(A, D, Prefix[row.registry], row.hint)
  <2> HIDE DEF A
  <2> QED BY ContinuesMore, DenseMore
<1> QED BY <1>1, <1>2, Zenon DEF ClerkContinues

\* What another request adds leaves no gap either when more is committed.
LEMMA ContinuesBeside ==
    ASSUME NEW N, N \subseteq Number, NEW I, I \subseteq Number, NEW C, Dense(N \cup I, C),
           NEW row \in ClerkRow, ClerkContinues(row, N, C)
    PROVE  ClerkContinues(row, N \cup I, C)
<1> DEFINE A == N \cup row.inserted
           B == (N \cup I) \cup row.inserted
<1>1. A \subseteq B /\ B = (N \cup I) \cup A /\ A \subseteq Number /\ N \cup I \subseteq Number
  BY DEF ClerkRow
<1>2. row.pc # "idle" => Dense(B, C)
  <2>1. row.pc # "idle" => Dense(A, C)
    BY DEF ClerkContinues
  <2> HIDE DEF A, B
  <2> QED BY <1>1, <2>1, DenseUnion
<1>3. /\ row.pc = "reserved" =>
            row.number.prefix = Prefix[row.registry] /\ Continues(A, C, row.number)
      /\ row.pc = "inserted" => HintContinues(A, C, Prefix[row.registry], row.hint)
  BY DEF ClerkContinues
<1> HIDE DEF A
<1>4. /\ Continues(A, C, row.number) => Continues(B, C, row.number)
      /\ HintContinues(A, C, Prefix[row.registry], row.hint)
           => HintContinues(B, C, Prefix[row.registry], row.hint)
  <2> HIDE DEF B
  <2> QED BY <1>1, ContinuesMore
<1>5. row.pc = "reserved" =>
        row.number.prefix = Prefix[row.registry] /\ Continues(B, C, row.number)
  BY <1>3, <1>4
<1>6. row.pc = "inserted" => HintContinues(B, C, Prefix[row.registry], row.hint)
  BY <1>3, <1>4
<1> QED BY <1>2, <1>5, <1>6, Zenon DEF ClerkContinues

\* The rows that a request commits.
Committed(c) == {[number |-> n, registry |-> clerk[c].registry, registered |-> clerk[c].began] :
                    n \in clerk[c].inserted}

LEMMA CommittedNumbers ==
    ASSUME NEW c, register' = register \cup Committed(c)
    PROVE  Numbers' = Numbers \cup clerk[c].inserted
<1>1. Numbers' = Numbers \cup {x.number : x \in Committed(c)}
  BY DEF Numbers
<1>2. \A x \in Committed(c) : x.number \in clerk[c].inserted
  BY DEF Committed
<1>3. ASSUME NEW n \in clerk[c].inserted PROVE \E x \in Committed(c) : x.number = n
  <2> DEFINE x == [number |-> n, registry |-> clerk[c].registry, registered |-> clerk[c].began]
  <2>1. x \in Committed(c)
    BY DEF Committed
  <2>2. x.number = n
    OBVIOUS
  <2> QED BY <2>1, <2>2
<1> QED BY <1>1, <1>2, <1>3

LEMMA StepCommit == ASSUME NumberingInv, NEW c \in Clerks, Commit(c) PROVE NumberingInv'
<1> DEFINE old == clerk[c]
           r   == old.registry
           I   == old.inserted
<1>1. old \in ClerkRow /\ BusyClerk(old) /\ ClerkContinues(old, Numbers, Chosen) /\ old.pc = "inserted"
  BY DEF NumberingInv, TypeInv, NumberingTypeOK, Commit
<1>2. /\ r \in Registries /\ old.began \in 1 .. MaxYear /\ I \subseteq Number
      /\ old.hint \in HintRow
  BY <1>1 DEF BusyClerk, ClerkRow
<1>3. /\ register' = register \cup Committed(c)
      /\ hint' = [hint EXCEPT ![r] = old.hint]
      /\ clerk' = [clerk EXCEPT ![c] = IdleClerk]
      /\ UNCHANGED <<year, editor>>
  BY DEF Commit, Committed
<1>4. Numbers' = Numbers \cup I
  BY <1>3, CommittedNumbers
<1>5. Committed(c) \subseteq DocumentRow
  BY <1>2 DEF Committed, DocumentRow
<1>6. Dense(Numbers \cup I, Chosen) /\ HintContinues(Numbers \cup I, Chosen, Prefix[r], old.hint)
  BY <1>1 DEF ClerkContinues
<1> HIDE DEF r, I, old
<1>7. /\ clerk' \in [Clerks -> ClerkRow] /\ clerk'[c] = IdleClerk
      /\ \A o \in Clerks : o # c => clerk'[o] = clerk[o]
  BY <1>3, IdleRows, ClerkSet DEF NumberingInv, TypeInv, NumberingTypeOK
<1>8. TypeInv'
  BY <1>2, <1>3, <1>5, <1>7, IdleContinues DEF NumberingInv, TypeInv, NumberingTypeOK
<1>9. /\ Chosen' = Chosen
      /\ \A p, h : HintContinues(Numbers, Chosen, p, h) => HintContinues(Numbers', Chosen', p, h)
  <2>1. Chosen' = Chosen
    BY <1>3, ChosenSame
  <2>2. Numbers \subseteq Numbers'
    BY <1>4
  <2> QED BY <2>1, <2>2, ContinuesMore
<1>10. \A s \in Registries : HintContinues(Numbers', Chosen', Prefix[s], hint'[s])
  <2>1. \A s \in Registries : hint'[s] = IF s = r THEN old.hint ELSE hint[s]
    BY <1>3 DEF NumberingInv, TypeInv, NumberingTypeOK
  <2>2. \A s \in Registries : HintContinues(Numbers, Chosen, Prefix[s], hint[s])
    BY DEF NumberingInv
  <2> QED BY <1>4, <1>6, <1>9, <2>1, <2>2
<1>11. \A e \in Editors : editor'[e].pc = "loaded" /\ ~editor'[e].supplied =>
          HintContinues(Numbers', Chosen', Prefix[editor'[e].registry], editor'[e].hint)
  BY <1>3, <1>9 DEF NumberingInv
<1>12. \A o \in Clerks : ClerkContinues(clerk'[o], Numbers', Chosen')
  <2>1. \A o \in Clerks : clerk[o] \in ClerkRow /\ ClerkContinues(clerk[o], Numbers, Chosen)
    BY DEF NumberingInv, TypeInv, NumberingTypeOK
  <2>2. Numbers \subseteq Number
    BY NumbersType DEF NumberingInv, TypeInv, NumberingTypeOK
  <2>3. \A o \in Clerks : ClerkContinues(clerk[o], Numbers \cup I, Chosen)
    BY <1>2, <1>6, <2>1, <2>2, ContinuesBeside DEF I, old
  <2> QED BY <1>4, <1>7, <1>9, <2>3, IdleContinues
<1>13. Dense(Numbers', Chosen')
  BY <1>4, <1>6, <1>9
<1> QED BY <1>8, <1>10, <1>11, <1>12, <1>13 DEF NumberingInv

\* An edit begins: nothing is chosen yet.
LEMMA ChosenLater ==
    ASSUME editor \in [Editors -> EditorRow], NEW e \in Editors, NEW r, NEW h, NEW supplied,
           EditorHolds(e, r, h, supplied)
    PROVE  Chosen' = Chosen
<1>1. editor'[e].pc = "loaded" /\ editor[e].pc = "idle"
      /\ \A f \in Editors : f # e => editor'[f] = editor[f]
  BY DEF EditorHolds
<1>2. {f \in Editors : editor'[f].pc = "done" /\ editor'[f].supplied}
        = {f \in Editors : editor[f].pc = "done" /\ editor[f].supplied}
  BY <1>1
<1>3. \A f \in Editors : editor[f].pc = "done" => editor'[f] = editor[f]
  BY <1>1
<1> QED BY <1>2, <1>3 DEF Chosen

LEMMA StepEditorHolds ==
    ASSUME NumberingInv, NEW e \in Editors, NEW r \in Registries, NEW h \in HintRow,
           NEW supplied \in BOOLEAN, EditorHolds(e, r, h, supplied),
           ~supplied => HintContinues(Numbers, Chosen, Prefix[r], h)
    PROVE  NumberingInv'
<1> DEFINE row == [pc |-> "loaded", registry |-> r, hint |-> h, supplied |-> supplied]
<1>2. row \in EditorRow /\ row.registry = r /\ row.hint = h /\ row.supplied = supplied
  BY DEF EditorRow
<1>3. editor' = [editor EXCEPT ![e] = row] /\ UNCHANGED <<year, hint, register, clerk>>
  BY DEF EditorHolds
<1> HIDE DEF row
<1>4. /\ editor' \in [Editors -> EditorRow] /\ editor'[e] = row
      /\ \A f \in Editors : f # e => editor'[f] = editor[f]
  BY <1>2, <1>3 DEF NumberingInv, TypeInv, NumberingTypeOK
<1>5. Numbers' = Numbers /\ Chosen' = Chosen
  <2>1. Chosen' = Chosen
    BY ChosenLater DEF NumberingInv, TypeInv, NumberingTypeOK
  <2> QED BY <1>3, <2>1 DEF Numbers
<1>6. TypeInv'
  BY <1>2, <1>3, <1>4 DEF NumberingInv, TypeInv, NumberingTypeOK
<1>7. \A f \in Editors : editor'[f].pc = "loaded" /\ ~editor'[f].supplied =>
          HintContinues(Numbers', Chosen', Prefix[editor'[f].registry], editor'[f].hint)
  BY <1>2, <1>4, <1>5 DEF NumberingInv
<1> QED BY <1>3, <1>5, <1>6, <1>7 DEF NumberingInv

LEMMA StepEditorLoad ==
    ASSUME NumberingInv, NEW e \in Editors, NEW r \in Registries, EditorLoad(e, r)
    PROVE  NumberingInv'
<1>1. hint[r] \in HintRow /\ HintContinues(Numbers, Chosen, Prefix[r], hint[r])
  BY DEF NumberingInv, TypeInv, NumberingTypeOK
<1>2. EditorHolds(e, r, hint[r], FALSE)
  BY DEF EditorLoad
<1> QED BY <1>1, <1>2, StepEditorHolds

LEMMA StepEditorSupply ==
    ASSUME NumberingInv, NEW e \in Editors, NEW r \in Registries, EditorSupply(e, r)
    PROVE  NumberingInv'
<1>1. PICK h \in Supplied : EditorHolds(e, r, h, TRUE)
  BY DEF EditorSupply
<1>2. h \in HintRow
  BY NumberingAssumption DEF HintRow
<1> QED BY <1>1, <1>2, StepEditorHolds

\* An edit ends: it has chosen the hint that its request supplied.
EditorStart(e) == [prefix |-> Prefix[editor[e].registry], year |-> editor[e].hint.year,
                   n |-> editor[e].hint.n]

LEMMA ChosenStored ==
    ASSUME editor \in [Editors -> EditorRow], NEW e \in Editors, EditorStore(e)
    PROVE  Chosen' = IF editor[e].supplied THEN Chosen \cup {EditorStart(e)} ELSE Chosen
<1> DEFINE Row(row)   == [prefix |-> Prefix[row.registry], year |-> row.hint.year,
                          n |-> row.hint.n]
           Ended(row) == row.pc = "done" /\ row.supplied
           first      == {[prefix |-> Prefix[r], year |-> NoYear, n |-> Start[r]] : r \in Registries}
<1>1. /\ Chosen  = first \cup {Row(editor[f]) : f \in {g \in Editors : Ended(editor[g])}}
      /\ Chosen' = first \cup {Row(editor'[f]) : f \in {g \in Editors : Ended(editor'[g])}}
  BY DEF Chosen
<1>2. editor[e] \in EditorRow /\ editor[e].pc = "loaded" /\ ~Ended(editor[e])
  BY DEF EditorStore
<1>3. /\ editor'[e].pc = "done" /\ editor'[e].supplied = editor[e].supplied
      /\ editor'[e].registry = editor[e].registry /\ editor'[e].hint = editor[e].hint
      /\ \A f \in Editors : f # e => editor'[f] = editor[f]
  BY <1>2 DEF EditorStore, EditorRow
<1>4. /\ Row(editor'[e]) = EditorStart(e)
      /\ Ended(editor'[e]) <=> editor[e].supplied
  BY <1>3 DEF EditorStart
<1> HIDE DEF Row, Ended, first
<1>5. CASE editor[e].supplied
  <2>1. {g \in Editors : Ended(editor'[g])} = {g \in Editors : Ended(editor[g])} \cup {e}
    BY <1>3, <1>4, <1>5
  <2> QED BY <1>1, <1>2, <1>3, <1>4, <1>5, <2>1
<1>6. CASE ~editor[e].supplied
  <2>1. {g \in Editors : Ended(editor'[g])} = {g \in Editors : Ended(editor[g])}
    BY <1>2, <1>3, <1>4, <1>6
  <2> QED BY <1>1, <1>2, <1>3, <1>6, <2>1
<1> QED BY <1>5, <1>6

LEMMA StepEditorStore ==
    ASSUME NumberingInv, NEW e \in Editors, EditorStore(e)
    PROVE  NumberingInv'
<1> DEFINE row == [editor[e] EXCEPT !.pc = "done"]
           r   == editor[e].registry
           h   == editor[e].hint
           chosen == EditorStart(e)
<1>1. /\ editor[e] \in EditorRow /\ r \in Registries /\ h \in HintRow
      /\ editor[e].pc = "loaded"
  BY DEF EditorStore, NumberingInv, TypeInv, NumberingTypeOK, EditorRow
<1>2. row \in EditorRow /\ row.pc = "done" /\ row.registry = r /\ row.hint = h
      /\ row.supplied = editor[e].supplied
  BY <1>1 DEF EditorRow
<1>3. /\ editor' = [editor EXCEPT ![e] = row] /\ hint' = [hint EXCEPT ![r] = h]
      /\ UNCHANGED <<year, register, clerk>>
  BY DEF EditorStore
<1> HIDE DEF row
<1>4. /\ editor' \in [Editors -> EditorRow] /\ editor'[e] = row
      /\ \A f \in Editors : f # e => editor'[f] = editor[f]
  BY <1>2, <1>3 DEF NumberingInv, TypeInv, NumberingTypeOK
<1>5. Chosen \subseteq Chosen' /\ (editor[e].supplied => chosen \in Chosen')
  BY ChosenStored DEF NumberingInv, TypeInv, NumberingTypeOK
<1> HIDE DEF r, h
<1>6. Numbers' = Numbers
  BY <1>3 DEF Numbers
<1>7. \A p, g : HintContinues(Numbers, Chosen, p, g) => HintContinues(Numbers', Chosen', p, g)
  BY <1>5, <1>6, ContinuesMore
<1>8. HintContinues(Numbers', Chosen', Prefix[r], h)
  <2>1. CASE editor[e].supplied
    <3>1. chosen \in Chosen' /\ chosen.prefix = Prefix[r] /\ chosen.year = h.year
          /\ chosen.n = h.n
      BY <1>5, <2>1 DEF EditorStart, r, h
    <3> HIDE DEF chosen
    <3>2. ASSUME NEW y \in 1 .. MaxYear, h.year \in {NoYear, y}
          PROVE  Book!Starts(Chosen', [prefix |-> Prefix[r], year |-> y, n |-> h.n])
      BY <3>1, <3>2 DEF Book!Starts, NoYear
    <3> QED BY <3>2 DEF HintContinues, Continues
  <2>2. CASE ~editor[e].supplied
    <3>1. HintContinues(Numbers, Chosen, Prefix[r], h)
      BY <1>1, <2>2 DEF NumberingInv, r, h
    <3> QED BY <1>7, <3>1
  <2> QED BY <2>1, <2>2
<1> HIDE DEF chosen
<1>9. /\ hint' \in [Registries -> HintRow]
      /\ \A s \in Registries : hint'[s] = IF s = r THEN h ELSE hint[s]
  BY <1>1, <1>3 DEF NumberingInv, TypeInv, NumberingTypeOK
<1>10. TypeInv'
  BY <1>1, <1>2, <1>3, <1>4, <1>9 DEF NumberingInv, TypeInv, NumberingTypeOK
<1>11. \A s \in Registries : HintContinues(Numbers', Chosen', Prefix[s], hint'[s])
  BY <1>7, <1>8, <1>9 DEF NumberingInv
<1>12. \A f \in Editors : editor'[f].pc = "loaded" /\ ~editor'[f].supplied =>
          HintContinues(Numbers', Chosen', Prefix[editor'[f].registry], editor'[f].hint)
  BY <1>2, <1>4, <1>7 DEF NumberingInv
<1>13. Dense(Numbers', Chosen')
  BY <1>5, <1>6, DenseMore DEF NumberingInv
<1>14. \A c \in Clerks : ClerkContinues(clerk'[c], Numbers', Chosen')
  <2>1. \A c \in Clerks : clerk'[c] = clerk[c] /\ ClerkContinues(clerk[c], Numbers, Chosen)
    BY <1>3 DEF NumberingInv
  <2> QED BY <1>5, <1>6, <2>1, ClerkMore
<1> QED BY <1>5, <1>10, <1>11, <1>12, <1>13, <1>14 DEF NumberingInv

LEMMA StepNewYear == ASSUME NumberingInv, NewYear PROVE NumberingInv'
<1>1. year' \in 1 .. MaxYear
  <2>1. year \in 1 .. MaxYear /\ year < MaxYear /\ year' = year + 1
    BY DEF NewYear, NumberingInv, TypeInv, NumberingTypeOK
  <2> QED BY <2>1, NumberingAssumption
<1>2. UNCHANGED <<hint, register, clerk, editor>>
  BY DEF NewYear
<1>3. Numbers' = Numbers /\ Chosen' = Chosen
  BY <1>2, ChosenSame DEF Numbers
<1>4. TypeInv'
  BY <1>1, <1>2 DEF NumberingInv, TypeInv, NumberingTypeOK
<1> QED BY <1>2, <1>3, <1>4 DEF NumberingInv

LEMMA NumberingStep ==
    ASSUME NumberingInv, [NumberingNext]_numberingVars PROVE NumberingInv'
<1>1. ASSUME NEW c \in Clerks, NEW r \in Registries, Begin(c, r) PROVE NumberingInv'
  BY <1>1, StepBegin
<1>2. ASSUME NEW c \in Clerks, Reserve(c) \/ Insert(c) \/ Commit(c) \/ Abort(c)
      PROVE  NumberingInv'
  BY <1>2, StepReserve, StepInsert, StepCommit, StepAbort
<1>3. ASSUME NEW e \in Editors, NEW r \in Registries, EditorLoad(e, r) \/ EditorSupply(e, r)
      PROVE  NumberingInv'
  BY <1>3, StepEditorLoad, StepEditorSupply
<1>4. ASSUME NEW e \in Editors, EditorStore(e) PROVE NumberingInv'
  BY <1>4, StepEditorStore
<1>5. CASE NewYear
  BY <1>5, StepNewYear
<1>6. CASE UNCHANGED numberingVars
  <2>1. UNCHANGED <<year, hint, register, clerk, editor>>
    BY <1>6 DEF numberingVars
  <2>2. Numbers' = Numbers /\ Chosen' = Chosen
    BY <2>1, ChosenSame DEF Numbers
  <2>3. TypeInv'
    BY <2>1 DEF NumberingInv, TypeInv, NumberingTypeOK
  <2> QED BY <2>1, <2>2, <2>3 DEF NumberingInv
<1> QED BY <1>1, <1>2, <1>3, <1>4, <1>5, <1>6 DEF NumberingNext

LEMMA NumberingStart == NumberingInit => NumberingInv
<1> SUFFICES ASSUME NumberingInit PROVE NumberingInv
  OBVIOUS
<1>1. Numbers = {}
  BY DEF NumberingInit, Numbers
<1>2. 1 \in 1 .. MaxYear
  BY NumberingAssumption
<1>3. TypeInv
  BY <1>2, IdleRows, IdleContinues DEF NumberingInit, TypeInv, NumberingTypeOK
<1>4. \A r \in Registries : HintContinues(Numbers, Chosen, Prefix[r], hint[r])
  <2> SUFFICES ASSUME NEW r \in Registries, NEW y \in 1 .. MaxYear
               PROVE  Book!Starts(Chosen, [prefix |-> Prefix[r], year |-> y, n |-> hint[r].n])
    BY DEF HintContinues, Continues
  <2> DEFINE h == [prefix |-> Prefix[r], year |-> NoYear, n |-> Start[r]]
  <2>1. h \in Chosen
    BY DEF Chosen
  <2>2. hint[r].n = Start[r]
    BY DEF NumberingInit, FirstHint
  <2>3. h.prefix = Prefix[r] /\ h.year = 0 /\ h.n = Start[r]
    BY DEF NoYear
  <2> HIDE DEF h
  <2> QED BY <2>1, <2>2, <2>3 DEF Book!Starts
<1>5. \A e \in Editors : editor[e].pc = "idle"
  BY IdleRows DEF NumberingInit
<1>6. \A c \in Clerks : ClerkContinues(clerk[c], Numbers, Chosen)
  BY IdleContinues DEF NumberingInit
<1> QED BY <1>1, <1>3, <1>4, <1>5, <1>6, DenseNothing DEF NumberingInv

\* The inductive invariant of the numbering.
THEOREM NumberingInvariant == NumberingSpec => []NumberingInv
BY NumberingStart, NumberingStep, PTL DEF NumberingSpec

\* Every number, hint and open request has its type.
THEOREM NumberingTypesHold == NumberingSpec => []NumberingTypeOK
<1>1. NumberingInv => NumberingTypeOK
  BY DEF NumberingInv, TypeInv
<1> QED BY <1>1, NumberingInvariant, PTL

\* REG-027: nextRegistryNumber, the inserts and the hint lose no number, whoever
\* fails and whatever is edited.
THEOREM NumbersHaveNoGap == NumberingSpec => []NumbersConsecutive
<1>1. NumberingInv => NumbersConsecutive
  BY DEF NumberingInv, Dense, Continues, NumbersConsecutive
<1> QED BY <1>1, NumberingInvariant, PTL

-----------------------------------------------------------------------------
(* Until a registry is edited, its hint is ahead of all its numbers, and   *)
(* the request that holds its row lock is the only one to go further.      *)

RegistryNumbers(r) == {x.number : x \in {z \in register : z.registry = r}}

\* A number is older than a hint or a number.
Below(n, bound) == n.year < bound.year \/ (n.year = bound.year /\ n.n < bound.n)

Locks(row) == row.pc \in {"reserved", "inserted"}
Bound(row) == IF row.pc = "reserved" THEN row.number ELSE row.hint

Ahead(N, bound) == bound.year =< year /\ \A n \in N : Below(n, bound)

ClerkAhead(row) ==
    Locks(row) /\ ~Edited(row.registry) =>
        Ahead(RegistryNumbers(row.registry) \cup row.inserted, Bound(row))

OwnPrefix(row) == \A n \in row.inserted : n.prefix = Prefix[row.registry]

FreeInv ==
    /\ \A x \in register : x.number.prefix = Prefix[x.registry]
    /\ \A r \in Registries : ~Edited(r) => Ahead(RegistryNumbers(r), hint[r])
    /\ \A c \in Clerks : OwnPrefix(clerk[c]) /\ ClerkAhead(clerk[c])
    /\ \A c, o \in Clerks : c # o /\ Locks(clerk[c]) /\ Locks(clerk[o])
                              => clerk[c].registry # clerk[o].registry

\* A request goes on by itself.
LEMMA FreeClerkStep ==
    ASSUME NumberingInv, FreeInv, NEW c \in Clerks, NEW row \in ClerkRow,
           clerk' = [clerk EXCEPT ![c] = row], UNCHANGED <<year, hint, register, editor>>,
           OwnPrefix(row), ClerkAhead(row),
           Locks(row) => \A o \in Clerks : o # c /\ Locks(clerk[o])
                                             => clerk[o].registry # row.registry
    PROVE  FreeInv'
<1>1. /\ clerk'[c] = row
      /\ \A o \in Clerks : o # c => clerk'[o] = clerk[o]
  BY ClerkSet DEF NumberingInv, TypeInv, NumberingTypeOK
<1>2. /\ \A x \in register' : x.number.prefix = Prefix[x.registry]
      /\ \A r \in Registries : ~Edited(r)' => Ahead(RegistryNumbers(r), hint[r])'
  BY DEF FreeInv, Edited, Ahead, RegistryNumbers
<1>3. \A o \in Clerks : OwnPrefix(clerk'[o])
  BY <1>1 DEF FreeInv
<1>4. ASSUME NEW o \in Clerks PROVE ClerkAhead(clerk[o])'
  <2>1. ClerkAhead(clerk'[o])
    BY <1>1 DEF FreeInv
  <2> QED BY <2>1 DEF ClerkAhead, Edited, Ahead, RegistryNumbers
<1>5. ASSUME NEW a \in Clerks, NEW b \in Clerks, a # b, Locks(clerk'[a]), Locks(clerk'[b])
      PROVE  clerk'[a].registry # clerk'[b].registry
  BY <1>1, <1>5 DEF FreeInv
<1> QED BY <1>2, <1>3, <1>4, <1>5 DEF FreeInv, OwnPrefix

LEMMA IdleIsFree == ClerkAhead(IdleClerk) /\ OwnPrefix(IdleClerk) /\ ~Locks(IdleClerk)
BY DEF ClerkAhead, OwnPrefix, Locks, IdleClerk

LEMMA FreeBegin ==
    ASSUME NumberingInv, FreeInv, NEW c \in Clerks, NEW r \in Registries, Begin(c, r)
    PROVE  FreeInv'
<1> DEFINE row == [IdleClerk EXCEPT !.pc = "begun", !.registry = r, !.began = year]
<1>1. row \in ClerkRow
  <2>1. year \in 0 .. MaxYear
    BY DEF NumberingInv, TypeInv, NumberingTypeOK
  <2>2. IdleClerk \in ClerkRow
    BY IdleRows
  <2> QED BY <2>1, <2>2 DEF ClerkRow
<1>2. row.pc = "begun" /\ row.inserted = {}
  BY DEF IdleClerk
<1>3. clerk' = [clerk EXCEPT ![c] = row] /\ UNCHANGED <<year, hint, register, editor>>
  BY DEF Begin
<1> HIDE DEF row
<1>4. ~Locks(row) /\ OwnPrefix(row) /\ ClerkAhead(row)
  BY <1>2 DEF Locks, OwnPrefix, ClerkAhead
<1> QED BY <1>1, <1>3, <1>4, FreeClerkStep

LEMMA FreeAbort ==
    ASSUME NumberingInv, FreeInv, NEW c \in Clerks, Abort(c) PROVE FreeInv'
BY IdleRows, IdleIsFree, FreeClerkStep DEF Abort

\* The next number is newer than the numbers that the hint is ahead of.
LEMMA NextIsAhead ==
    ASSUME year \in 1 .. MaxYear, NEW r \in Registries, NEW N \in SUBSET Number,
           NEW h \in HintRow, Ahead(N, h), AfterLast(r) \in Nat \ {0}
    PROVE  Ahead(N, NextNumber(r, h))
<1> DEFINE x == NextNumber(r, h)
<1>1. x.year = year /\ x.n = IF Usable(h) THEN h.n ELSE AfterLast(r)
  BY DEF NextNumber
<1>2. year \in Nat /\ h.year \in Nat /\ h.year =< year /\ h.n \in Nat
  BY DEF HintRow, Ahead
<1> HIDE DEF x
<1>3. ASSUME NEW n \in N PROVE Below(n, x)
  <2>1. n.year \in Nat /\ n.year >= 1 /\ n.n \in Nat /\ Below(n, h)
    BY DEF Number, Ahead
  <2>2. CASE Usable(h)
    <3>1. h.year = 0 \/ h.year = year
      BY <2>2 DEF Usable, NoYear
    <3>2. h.year # 0
      BY <1>2, <2>1 DEF Below
    <3> QED BY <1>1, <2>1, <2>2, <3>1, <3>2 DEF Below
  <2>3. CASE ~Usable(h)
    <3>1. h.year < year
      BY <1>2, <2>3 DEF Usable
    <3>2. n.year < year
      BY <1>2, <2>1, <3>1 DEF Below
    <3> QED BY <1>1, <3>2 DEF Below
  <2> QED BY <2>2, <2>3
<1> QED BY <1>1, <1>2, <1>3 DEF Ahead, x

LEMMA RegistryNumbersType ==
    ASSUME register \subseteq DocumentRow, NEW r PROVE RegistryNumbers(r) \in SUBSET Number
BY DEF RegistryNumbers, DocumentRow

LEMMA FreeReserve ==
    ASSUME NumberingInv, FreeInv, NEW c \in Clerks, Reserve(c) PROVE FreeInv'
<1> DEFINE old == clerk[c]
           r   == old.registry
           h   == SeenHint(c)
           x   == NextNumber(r, h)
           row == [old EXCEPT !.pc = "reserved", !.number = x]
           N   == RegistryNumbers(r) \cup old.inserted
<1>1. old \in ClerkRow /\ BusyClerk(old) /\ ClerkContinues(old, Numbers, Chosen) /\ old.pc \in {"begun", "inserted"}
  BY DEF NumberingInv, TypeInv, NumberingTypeOK, Reserve, Reserved
<1>2. r \in Registries
  BY <1>1 DEF BusyClerk
<1>3. h \in HintRow /\ HintContinues(Numbers \cup old.inserted, Chosen, Prefix[r], h)
  <2>1. CASE old.pc = "begun"
    <3>1. Numbers \cup old.inserted = Numbers
      BY <1>1, <2>1 DEF BusyClerk
    <3>2. h = hint[r]
      BY <2>1 DEF SeenHint
    <3>3. hint[r] \in HintRow /\ HintContinues(Numbers, Chosen, Prefix[r], hint[r])
      BY <1>2 DEF NumberingInv, TypeInv, NumberingTypeOK
    <3> QED BY <3>1, <3>2, <3>3
  <2>2. CASE old.pc = "inserted"
    BY <1>1, <2>2 DEF ClerkContinues, SeenHint, ClerkRow
  <2> QED BY <1>1, <2>1, <2>2
<1>4. /\ register \subseteq DocumentRow /\ year \in 1 .. MaxYear /\ Bounded(Numbers)
      /\ AfterLast(r) \in Nat \ {0}
  <2>1. register \subseteq DocumentRow /\ year \in 1 .. MaxYear /\ Bounded(Numbers)
    BY DEF NumberingInv, TypeInv, NumberingTypeOK, Dense
  <2> HIDE DEF r
  <2> QED BY <1>2, <2>1, ScanFindsLast
<1>5. x \in Number
  <2>1. Numbers \subseteq Numbers \cup old.inserted
    OBVIOUS
  <2> HIDE DEF r, h, old
  <2> QED BY <1>2, <1>3, <1>4, <2>1, NextContinues
<1>6. ~Edited(r) => Ahead(N, h)
  <2>1. CASE old.pc = "begun"
    <3>1. N = RegistryNumbers(r) /\ h = hint[r]
      BY <1>1, <2>1 DEF BusyClerk, SeenHint
    <3> QED BY <1>2, <3>1 DEF FreeInv
  <2>2. CASE old.pc = "inserted"
    <3>1. Locks(old) /\ Bound(old) = old.hint /\ h = old.hint
      BY <2>2 DEF Locks, Bound, SeenHint
    <3> QED BY <3>1 DEF FreeInv, ClerkAhead
  <2> QED BY <1>1, <2>1, <2>2
<1>7. N \in SUBSET Number
  BY <1>1, <1>4, RegistryNumbersType DEF ClerkRow
<1>8. ~Edited(r) => Ahead(N, x)
  <2> HIDE DEF r, h, N
  <2> QED BY <1>2, <1>3, <1>4, <1>6, <1>7, NextIsAhead
<1>9. clerk' = [clerk EXCEPT ![c] = row] /\ UNCHANGED <<year, hint, register, editor>>
  BY DEF Reserve, Reserved, SeenHint, NumberingInv, TypeInv, NumberingTypeOK
<1>10. OwnPrefix(old)
  BY DEF FreeInv
<1>11. \A o \in Clerks : o # c /\ Locks(clerk[o]) => clerk[o].registry # r
  <2>1. CASE old.pc = "begun"
    BY <2>1 DEF Reserve, Reserved, RowLocked, Locks
  <2>2. CASE old.pc = "inserted"
    BY <2>2 DEF FreeInv, Locks
  <2> QED BY <1>1, <2>1, <2>2
<1> HIDE DEF x
<1>12. row \in ClerkRow /\ row.pc = "reserved" /\ row.number = x /\ row.registry = r
       /\ row.inserted = old.inserted
  BY <1>1, <1>5 DEF ClerkRow
<1> HIDE DEF row, r, old
<1>13. OwnPrefix(row)
  BY <1>10, <1>12 DEF OwnPrefix, r
<1>14. ClerkAhead(row)
  BY <1>8, <1>12 DEF ClerkAhead, Bound
<1>15. \A o \in Clerks : o # c /\ Locks(clerk[o]) => clerk[o].registry # row.registry
  BY <1>11, <1>12
<1> QED BY <1>9, <1>12, <1>13, <1>14, <1>15, FreeClerkStep

LEMMA FreeInsert ==
    ASSUME NumberingInv, FreeInv, NEW c \in Clerks, Insert(c) PROVE FreeInv'
<1> DEFINE old == clerk[c]
           x   == old.number
           row == [old EXCEPT !.pc = "inserted", !.inserted = @ \cup {x}, !.hint = Following(x)]
<1>1. old \in ClerkRow /\ BusyClerk(old) /\ ClerkContinues(old, Numbers, Chosen) /\ old.pc = "reserved"
  BY DEF NumberingInv, TypeInv, NumberingTypeOK, Insert
<1>2. CASE x \in Numbers \cup old.inserted
  <2>1. clerk' = [clerk EXCEPT ![c] = IdleClerk] /\ UNCHANGED <<year, hint, register, editor>>
    BY <1>2 DEF Insert
  <2> QED BY <2>1, IdleRows, IdleIsFree, FreeClerkStep
<1>3. CASE ~ (x \in Numbers \cup old.inserted)
  <2>1. clerk' = [clerk EXCEPT ![c] = row] /\ UNCHANGED <<year, hint, register, editor>>
    BY <1>3 DEF Insert, NumberingInv, TypeInv, NumberingTypeOK
  <2>2. /\ x \in Number /\ Following(x) \in HintRow /\ x.prefix = Prefix[old.registry]
    BY <1>1, FollowingHint DEF BusyClerk, ClerkContinues
  <2>3. /\ Locks(old) /\ Bound(old) = x
        /\ OwnPrefix(old) /\ ClerkAhead(old)
        /\ \A o \in Clerks : o # c /\ Locks(clerk[o]) => clerk[o].registry # old.registry
    BY <1>1 DEF FreeInv, Locks, Bound
  <2>4. ~Edited(old.registry) => Ahead(RegistryNumbers(old.registry) \cup old.inserted, x)
    BY <2>3 DEF ClerkAhead
  <2>5. RegistryNumbers(old.registry) \cup old.inserted \in SUBSET Number
    BY <1>1, RegistryNumbersType DEF ClerkRow, NumberingInv, TypeInv, NumberingTypeOK
  <2> HIDE DEF x
  <2>6. row \in ClerkRow /\ row.pc = "inserted" /\ row.inserted = old.inserted \cup {x}
        /\ row.registry = old.registry /\ row.hint = Following(x)
    BY <1>1, <2>2 DEF ClerkRow
  <2> HIDE DEF row, old
  <2>7. OwnPrefix(row)
    BY <2>2, <2>3, <2>6 DEF OwnPrefix
  <2>8. ASSUME NEW N \in SUBSET Number, Ahead(N, x) PROVE Ahead(N \cup {x}, Following(x))
    <3>1. /\ x.year \in Nat /\ x.n \in Nat /\ Following(x).year = x.year
          /\ Following(x).n = x.n + 1
      BY <2>2 DEF Number, Following
    <3>2. \A n \in N : n.year \in Nat /\ n.n \in Nat
      BY DEF Number
    <3> QED BY <2>8, <3>1, <3>2 DEF Ahead, Below
  <2>9. ~Edited(old.registry)
          => Ahead((RegistryNumbers(old.registry) \cup old.inserted) \cup {x}, Following(x))
    BY <2>4, <2>5, <2>8
  <2>10. RegistryNumbers(row.registry) \cup row.inserted
           = (RegistryNumbers(old.registry) \cup old.inserted) \cup {x}
    BY <2>6
  <2>11. Bound(row) = Following(x)
    BY <2>6 DEF Bound
  <2>12. ClerkAhead(row)
    BY <2>6, <2>9, <2>10, <2>11 DEF ClerkAhead
  <2>13. \A o \in Clerks : o # c /\ Locks(clerk[o]) => clerk[o].registry # row.registry
    BY <2>3, <2>6
  <2> QED BY <2>1, <2>6, <2>7, <2>12, <2>13, FreeClerkStep
<1> QED BY <1>2, <1>3

\* What a commit adds to each registry.
LEMMA CommittedRegistry ==
    ASSUME NEW c, register' = register \cup Committed(c), NEW s
    PROVE  LET numbers == {x.number : x \in {z \in register' : z.registry = s}} IN
           numbers = IF s = clerk[c].registry THEN RegistryNumbers(s) \cup clerk[c].inserted
                                              ELSE RegistryNumbers(s)
<1> DEFINE C == {x.number : x \in {z \in Committed(c) : z.registry = s}}
<1>1. {x.number : x \in {z \in register' : z.registry = s}} = RegistryNumbers(s) \cup C
  BY DEF RegistryNumbers
<1>2. \A x \in Committed(c) : x.registry = clerk[c].registry /\ x.number \in clerk[c].inserted
  BY DEF Committed
<1>3. ASSUME NEW n \in clerk[c].inserted
      PROVE  \E x \in Committed(c) : x.number = n /\ x.registry = clerk[c].registry
  <2> DEFINE x == [number |-> n, registry |-> clerk[c].registry, registered |-> clerk[c].began]
  <2>1. x \in Committed(c)
    BY DEF Committed
  <2>2. x.number = n /\ x.registry = clerk[c].registry
    OBVIOUS
  <2> QED BY <2>1, <2>2
<1>4. CASE s = clerk[c].registry
  <2>1. C = clerk[c].inserted
    BY <1>2, <1>3, <1>4
  <2> QED BY <1>1, <1>4, <2>1
<1>5. CASE s # clerk[c].registry
  <2>1. C = {}
    BY <1>2, <1>5
  <2> QED BY <1>1, <1>5, <2>1
<1> QED BY <1>4, <1>5

LEMMA FreeCommit ==
    ASSUME NumberingInv, FreeInv, NEW c \in Clerks, Commit(c) PROVE FreeInv'
<1> DEFINE old == clerk[c]
           r   == old.registry
           I   == old.inserted
<1>1. old \in ClerkRow /\ BusyClerk(old) /\ old.pc = "inserted"
  BY DEF NumberingInv, TypeInv, NumberingTypeOK, Commit
<1>2. r \in Registries /\ Locks(old) /\ Bound(old) = old.hint /\ OwnPrefix(old) /\ ClerkAhead(old)
  BY <1>1 DEF BusyClerk, Locks, Bound, FreeInv
<1>3. ~Edited(r) => Ahead(RegistryNumbers(r) \cup I, old.hint)
  BY <1>2 DEF ClerkAhead
<1>4. /\ register' = register \cup Committed(c)
      /\ hint' = [hint EXCEPT ![r] = old.hint]
      /\ clerk' = [clerk EXCEPT ![c] = IdleClerk]
      /\ UNCHANGED <<year, editor>>
  BY DEF Commit, Committed
<1>5. \A s : RegistryNumbers(s)' = IF s = r THEN RegistryNumbers(s) \cup I ELSE RegistryNumbers(s)
  <2> TAKE s
  <2>1. RegistryNumbers(s)' = {x.number : x \in {z \in register' : z.registry = s}}
    BY DEF RegistryNumbers
  <2> QED BY <1>4, <2>1, CommittedRegistry
<1>6. /\ clerk'[c] = IdleClerk /\ \A o \in Clerks : o # c => clerk'[o] = clerk[o]
  BY <1>4, IdleRows, ClerkSet DEF NumberingInv, TypeInv, NumberingTypeOK
<1>7. \A x \in Committed(c) : x.number \in I /\ x.registry = r
  BY DEF Committed
<1>8. \A x \in register' : x.number.prefix = Prefix[x.registry]
  BY <1>2, <1>4, <1>7 DEF FreeInv, OwnPrefix
<1>9. \A o \in Clerks : o # c /\ Locks(clerk[o]) => clerk[o].registry # r
  BY <1>2 DEF FreeInv
<1> HIDE DEF r, I, old
<1>10. \A s \in Registries : hint'[s] = IF s = r THEN old.hint ELSE hint[s]
  BY <1>4 DEF NumberingInv, TypeInv, NumberingTypeOK
<1>11. \A s : Edited(s)' = Edited(s)
  BY <1>4 DEF Edited
<1>12. ASSUME NEW s \in Registries, ~Edited(s)' PROVE Ahead(RegistryNumbers(s), hint[s])'
  <2>1. CASE s = r
    <3>1. Ahead(RegistryNumbers(s) \cup I, old.hint)
      BY <1>3, <1>11, <1>12, <2>1
    <3>2. RegistryNumbers(s)' = RegistryNumbers(s) \cup I /\ hint'[s] = old.hint
      BY <1>5, <1>10, <2>1
    <3> QED BY <1>4, <3>1, <3>2 DEF Ahead
  <2>2. CASE s # r
    <3>1. Ahead(RegistryNumbers(s), hint[s])
      BY <1>11, <1>12 DEF FreeInv
    <3>2. RegistryNumbers(s)' = RegistryNumbers(s) /\ hint'[s] = hint[s]
      BY <1>5, <1>10, <2>2
    <3> QED BY <1>4, <3>1, <3>2 DEF Ahead
  <2> QED BY <2>1, <2>2
<1>13. ASSUME NEW o \in Clerks PROVE OwnPrefix(clerk'[o]) /\ ClerkAhead(clerk[o])'
  <2>1. CASE o = c
    BY <1>6, <2>1, IdleIsFree DEF ClerkAhead
  <2>2. CASE o # c
    <3>1. clerk'[o] = clerk[o] /\ OwnPrefix(clerk[o]) /\ ClerkAhead(clerk[o])
      BY <1>6, <2>2 DEF FreeInv
    <3>2. CASE ~Locks(clerk[o])
      BY <3>1, <3>2 DEF ClerkAhead
    <3>3. CASE Locks(clerk[o])
      <4>1. RegistryNumbers(clerk[o].registry)' = RegistryNumbers(clerk'[o].registry)
        <5>1. clerk[o].registry # r
          BY <1>9, <2>2, <3>3
        <5>2. RegistryNumbers(clerk[o].registry)'
                = {x.number : x \in {z \in register' : z.registry = clerk'[o].registry}}
          BY DEF RegistryNumbers
        <5>3. {x.number : x \in {z \in register' : z.registry = clerk[o].registry}}
                = RegistryNumbers(clerk[o].registry)
          BY <1>4, <5>1, CommittedRegistry DEF r, old
        <5> QED BY <3>1, <5>2, <5>3
      <4>2. ~Edited(clerk[o].registry)' => ~Edited(clerk[o].registry)
        BY <1>4, <3>1 DEF Edited
      <4>3. ~Edited(clerk[o].registry) =>
               Ahead(RegistryNumbers(clerk[o].registry) \cup clerk[o].inserted, Bound(clerk[o]))
        BY <3>1, <3>3 DEF ClerkAhead
      <4>4. ~Edited(clerk[o].registry)' =>
               Ahead(RegistryNumbers(clerk[o].registry) \cup clerk[o].inserted, Bound(clerk[o]))'
        BY <1>4, <3>1, <4>1, <4>2, <4>3 DEF Ahead, Bound
      <4> QED BY <3>1, <4>4 DEF ClerkAhead
    <3> QED BY <3>1, <3>2, <3>3
  <2> QED BY <2>1, <2>2
<1>14. \A a, b \in Clerks : a # b /\ Locks(clerk'[a]) /\ Locks(clerk'[b])
                              => clerk'[a].registry # clerk'[b].registry
  BY <1>6, IdleIsFree DEF FreeInv
<1> QED BY <1>8, <1>12, <1>13, <1>14 DEF FreeInv, OwnPrefix, Locks

LEMMA FreeEditorHolds ==
    ASSUME NumberingInv, FreeInv, NEW e \in Editors, NEW r, NEW h, NEW supplied,
           EditorHolds(e, r, h, supplied)
    PROVE  FreeInv'
<1>1. \A s : Edited(s)' = Edited(s)
  BY DEF EditorHolds, Edited, NumberingInv, TypeInv, NumberingTypeOK
<1>2. UNCHANGED <<year, hint, register, clerk>>
  BY DEF EditorHolds
<1>3. ASSUME NEW s \in Registries, ~Edited(s)' PROVE Ahead(RegistryNumbers(s), hint[s])'
  <2>1. Ahead(RegistryNumbers(s), hint[s])
    BY <1>1, <1>3 DEF FreeInv
  <2> QED BY <1>2, <2>1 DEF Ahead, RegistryNumbers
<1>4. ASSUME NEW c \in Clerks PROVE OwnPrefix(clerk'[c]) /\ ClerkAhead(clerk[c])'
  <2>1. ClerkAhead(clerk[c]) /\ OwnPrefix(clerk'[c]) /\ clerk'[c] = clerk[c]
    BY <1>2 DEF FreeInv
  <2>2. Edited(clerk[c].registry)' = Edited(clerk[c].registry)
    BY <1>2, <2>1 DEF EditorHolds, Edited, NumberingInv, TypeInv, NumberingTypeOK
  <2> QED BY <1>2, <2>1, <2>2 DEF ClerkAhead, Ahead, RegistryNumbers
<1> QED BY <1>2, <1>3, <1>4 DEF FreeInv, OwnPrefix

LEMMA FreeEditorStore ==
    ASSUME NumberingInv, FreeInv, NEW e \in Editors, EditorStore(e) PROVE FreeInv'
<1> DEFINE r == editor[e].registry
<1>1. /\ UNCHANGED <<year, register, clerk>>
      /\ hint' = [hint EXCEPT ![r] = editor[e].hint]
      /\ editor' = [editor EXCEPT ![e].pc = "done"]
  BY DEF EditorStore
<1>2. editor \in [Editors -> EditorRow] /\ hint \in [Registries -> HintRow]
  BY DEF NumberingInv, TypeInv, NumberingTypeOK
<1>3. \A s : Edited(s) => Edited(s)'
  <2>1. \A f \in Editors : editor[f].pc = "done" =>
            editor'[f].pc = "done" /\ editor'[f].registry = editor[f].registry
    BY <1>1, <1>2 DEF EditorRow
  <2> QED BY <2>1 DEF Edited
<1>4. Edited(r)'
  <2>1. editor'[e].pc = "done" /\ editor'[e].registry = r
    BY <1>1, <1>2 DEF EditorRow
  <2>2. \E f \in Editors : editor'[f].pc = "done" /\ editor'[f].registry = r
    BY <2>1
  <2>3. r' = r
    BY <2>1
  <2> QED BY <2>2, <2>3 DEF Edited
<1>5. \A s \in Registries : s # r => hint'[s] = hint[s]
  BY <1>1, <1>2
<1>6. ASSUME NEW s \in Registries, ~Edited(s)' PROVE Ahead(RegistryNumbers(s), hint[s])'
  <2>1. s # r
    <3>1. r' = r
      BY <1>1, <1>2 DEF EditorRow
    <3> QED BY <1>4, <1>6, <3>1 DEF Edited
  <2>2. Ahead(RegistryNumbers(s), hint[s])
    BY <1>3, <1>6 DEF FreeInv
  <2> QED BY <1>1, <1>5, <2>1, <2>2 DEF Ahead, RegistryNumbers
<1>7. ASSUME NEW c \in Clerks PROVE OwnPrefix(clerk'[c]) /\ ClerkAhead(clerk[c])'
  <2>1. ClerkAhead(clerk[c]) /\ OwnPrefix(clerk'[c]) /\ clerk'[c] = clerk[c]
    BY <1>1 DEF FreeInv
  <2>2. Edited(clerk[c].registry) => Edited(clerk[c].registry)'
    <3>1. \A f \in Editors : editor[f].pc = "done" =>
              editor'[f].pc = "done" /\ editor'[f].registry = editor[f].registry
      BY <1>1, <1>2 DEF EditorRow
    <3> QED BY <2>1, <3>1 DEF Edited
  <2> QED BY <1>1, <2>1, <2>2 DEF ClerkAhead, Ahead, RegistryNumbers
<1> QED BY <1>1, <1>6, <1>7 DEF FreeInv, OwnPrefix

LEMMA FreeNewYear == ASSUME NumberingInv, FreeInv, NewYear PROVE FreeInv'
<1>1. year' = year + 1 /\ year \in Nat /\ UNCHANGED <<hint, register, clerk, editor>>
  BY DEF NewYear, NumberingInv, TypeInv, NumberingTypeOK
<1>2. ASSUME NEW N, NEW bound, bound.year \in Nat, Ahead(N, bound)
      PROVE  bound.year =< year' /\ \A n \in N : Below(n, bound)
  BY <1>1, <1>2 DEF Ahead
<1>3. ASSUME NEW s \in Registries, ~Edited(s)' PROVE Ahead(RegistryNumbers(s), hint[s])'
  <2>1. Ahead(RegistryNumbers(s), hint[s])
    BY <1>1, <1>3 DEF FreeInv, Edited
  <2>2. hint[s].year \in Nat
    BY DEF NumberingInv, TypeInv, NumberingTypeOK, HintRow
  <2>3. hint[s].year =< year' /\ \A n \in RegistryNumbers(s) : Below(n, hint[s])
    BY <1>2, <2>1, <2>2
  <2> QED BY <1>1, <2>3 DEF Ahead, RegistryNumbers
<1>4. ASSUME NEW c \in Clerks PROVE OwnPrefix(clerk'[c]) /\ ClerkAhead(clerk[c])'
  <2>1. ClerkAhead(clerk[c]) /\ OwnPrefix(clerk'[c])
    BY <1>1 DEF FreeInv
  <2>2. Locks(clerk[c]) => Bound(clerk[c]).year \in Nat
    <3>1. clerk[c] \in ClerkRow /\ BusyClerk(clerk[c])
      BY DEF NumberingInv, TypeInv, NumberingTypeOK
    <3> QED BY <3>1 DEF Bound, Locks, BusyClerk, ClerkRow, HintRow, Number
  <2>3. Locks(clerk[c]) /\ ~Edited(clerk[c].registry) =>
          LET N == RegistryNumbers(clerk[c].registry) \cup clerk[c].inserted IN
          Bound(clerk[c]).year =< year' /\ \A n \in N : Below(n, Bound(clerk[c]))
    BY <1>2, <2>1, <2>2 DEF ClerkAhead
  <2> QED BY <1>1, <2>1, <2>3 DEF ClerkAhead, Ahead, RegistryNumbers, Edited
<1> QED BY <1>1, <1>3, <1>4 DEF FreeInv, OwnPrefix

LEMMA FreeStep ==
    ASSUME NumberingInv, FreeInv, [NumberingNext]_numberingVars PROVE FreeInv'
<1>1. ASSUME NEW c \in Clerks, NEW r \in Registries, Begin(c, r) PROVE FreeInv'
  BY <1>1, FreeBegin
<1>2. ASSUME NEW c \in Clerks, Reserve(c) \/ Insert(c) \/ Commit(c) \/ Abort(c) PROVE FreeInv'
  BY <1>2, FreeReserve, FreeInsert, FreeCommit, FreeAbort
<1>3. ASSUME NEW e \in Editors, NEW r \in Registries, EditorLoad(e, r) \/ EditorSupply(e, r)
      PROVE  FreeInv'
  BY <1>3, FreeEditorHolds DEF EditorLoad, EditorSupply
<1>4. ASSUME NEW e \in Editors, EditorStore(e) PROVE FreeInv'
  BY <1>4, FreeEditorStore
<1>5. CASE NewYear
  BY <1>5, FreeNewYear
<1>6. CASE UNCHANGED numberingVars
  BY <1>6 DEF numberingVars, FreeInv, Edited, Ahead, RegistryNumbers, ClerkAhead, OwnPrefix
<1> QED BY <1>1, <1>2, <1>3, <1>4, <1>5, <1>6 DEF NumberingNext

LEMMA FreeStart == NumberingInit => FreeInv
<1> SUFFICES ASSUME NumberingInit PROVE FreeInv
  OBVIOUS
<1>1. register = {} /\ year = 1 /\ \A r \in Registries : hint[r].year = 0
  BY DEF NumberingInit, FirstHint, NoYear
<1>2. \A c \in Clerks : clerk[c] = IdleClerk
  BY DEF NumberingInit
<1>3. \A r \in Registries : Ahead(RegistryNumbers(r), hint[r])
  BY <1>1 DEF Ahead, RegistryNumbers
<1> QED BY <1>1, <1>2, <1>3, IdleIsFree DEF FreeInv

\* REG-027: the number that a request receives from nextRegistryNumber is in no committed
\* document, as long as nobody has edited its registry and no other one has its prefix.
THEOREM ReservedNumbersAreFree == NumberingSpec => []UneditedNumberIsFree
<1>1. NumberingInv /\ FreeInv /\ [NumberingNext]_numberingVars => FreeInv'
  BY FreeStep
<1>2. ASSUME NumberingInv, FreeInv PROVE UneditedNumberIsFree
  <2> SUFFICES ASSUME NEW c \in Clerks, clerk[c].pc = "reserved", ~Edited(clerk[c].registry),
                      Alone(clerk[c].registry), clerk[c].number \in Numbers
               PROVE  FALSE
    BY DEF UneditedNumberIsFree
  <2> DEFINE r == clerk[c].registry
             x == clerk[c].number
  <2>1. r \in Registries /\ x.prefix = Prefix[r] /\ x \in Number
    BY <1>2 DEF NumberingInv, TypeInv, BusyClerk, ClerkContinues
  <2>2. PICK y \in register : y.number = x
    BY DEF Numbers
  <2>3. y.registry \in Registries /\ Prefix[y.registry] = Prefix[r]
    BY <1>2, <2>1, <2>2 DEF FreeInv, NumberingInv, TypeInv, NumberingTypeOK, DocumentRow
  <2>4. y.registry = r
    BY <2>1, <2>3 DEF Alone
  <2>5. x \in RegistryNumbers(r)
    BY <2>2, <2>4 DEF RegistryNumbers
  <2>6. Below(x, x)
    BY <1>2, <2>5 DEF FreeInv, ClerkAhead, Locks, Bound, Ahead
  <2>7. x.year \in Nat /\ x.n \in Nat
    BY <2>1 DEF Number
  <2> QED BY <2>6, <2>7 DEF Below
<1> QED BY <1>1, <1>2, FreeStart, NumberingInvariant, PTL DEF NumberingSpec

-----------------------------------------------------------------------------
(* The refinement.  The numbers of open transactions are neither committed *)
(* nor in another open transaction: the unique constraint lets an insert   *)
(* wait for the one and fail on the other.  It holds whoever edits.        *)

OpenInv ==
    /\ Book!Unique(register)
    /\ \A c \in Clerks : clerk[c].inserted \cap Numbers = {}
    /\ \A c, o \in Clerks : c # o => clerk[c].inserted \cap clerk[o].inserted = {}

\* A request goes on by itself.
LEMMA OpenClerkStep ==
    ASSUME NumberingInv, OpenInv, NEW c \in Clerks, NEW row \in ClerkRow,
           clerk' = [clerk EXCEPT ![c] = row], register' = register,
           row.inserted \cap Numbers = {},
           \A o \in Clerks : o # c => row.inserted \cap clerk[o].inserted = {}
    PROVE  OpenInv'
<1>1. /\ clerk'[c] = row
      /\ \A o \in Clerks : o # c => clerk'[o] = clerk[o]
  BY ClerkSet DEF NumberingInv, TypeInv, NumberingTypeOK
<1>2. Numbers' = Numbers
  BY DEF Numbers
<1>3. \A o \in Clerks : clerk'[o].inserted \cap Numbers' = {}
  BY <1>1, <1>2 DEF OpenInv
<1>4. ASSUME NEW a \in Clerks, NEW b \in Clerks, a # b
      PROVE  clerk'[a].inserted \cap clerk'[b].inserted = {}
  BY <1>1, <1>4 DEF OpenInv
<1>5. Book!Unique(register)'
  BY DEF OpenInv, Book!Unique
<1> QED BY <1>3, <1>4, <1>5 DEF OpenInv

LEMMA OpenIdle ==
    ASSUME NumberingInv, OpenInv, NEW c \in Clerks, clerk' = [clerk EXCEPT ![c] = IdleClerk],
           register' = register
    PROVE  OpenInv'
BY IdleRows, OpenClerkStep

LEMMA OpenReserve == ASSUME NumberingInv, OpenInv, NEW c \in Clerks, Reserve(c) PROVE OpenInv'
<1> DEFINE x   == NextNumber(clerk[c].registry, SeenHint(c))
           row == [clerk[c] EXCEPT !.pc = "reserved", !.number = x]
<1>1. clerk' = [clerk EXCEPT ![c] = row] /\ register' = register
  BY DEF Reserve, Reserved, SeenHint, NumberingInv, TypeInv, NumberingTypeOK
<1>2. clerk[c] \in ClerkRow
  BY DEF NumberingInv, TypeInv, NumberingTypeOK
<1>3. row \in ClerkRow
  <2>1. NumberingInv'
    BY StepReserve
  <2>2. clerk'[c] \in ClerkRow
    BY <2>1 DEF NumberingInv, TypeInv, NumberingTypeOK
  <2>3. clerk'[c] = row
    BY <1>1 DEF NumberingInv, TypeInv, NumberingTypeOK
  <2> QED BY <2>2, <2>3
<1>4. row.inserted = clerk[c].inserted
  BY <1>2 DEF ClerkRow
<1> HIDE DEF row
<1>5. row.inserted \cap Numbers = {}
      /\ \A o \in Clerks : o # c => row.inserted \cap clerk[o].inserted = {}
  BY <1>4 DEF OpenInv
<1> QED BY <1>1, <1>3, <1>5, OpenClerkStep

LEMMA OpenInsert == ASSUME NumberingInv, OpenInv, NEW c \in Clerks, Insert(c) PROVE OpenInv'
<1> DEFINE old == clerk[c]
           x   == old.number
           row == [old EXCEPT !.pc = "inserted", !.inserted = @ \cup {x}, !.hint = Following(x)]
<1>1. CASE x \in Numbers \cup old.inserted
  BY <1>1, OpenIdle DEF Insert
<1>2. CASE ~ (x \in Numbers \cup old.inserted)
  <2>1. clerk' = [clerk EXCEPT ![c] = row] /\ register' = register
    BY <1>2 DEF Insert, NumberingInv, TypeInv, NumberingTypeOK
  <2>2. old \in ClerkRow /\ BusyClerk(old) /\ old.pc = "reserved"
    BY DEF NumberingInv, TypeInv, NumberingTypeOK, Insert
  <2>3. x \in Number /\ Following(x) \in HintRow
    BY <2>2, FollowingHint DEF BusyClerk
  <2>4. \A o \in Clerks : o # c => x \notin clerk[o].inserted
    BY DEF Insert
  <2> HIDE DEF x
  <2>5. row \in ClerkRow /\ row.inserted = old.inserted \cup {x}
    BY <2>2, <2>3 DEF ClerkRow
  <2>6. row.inserted \cap Numbers = {}
    BY <1>2, <2>5 DEF OpenInv
  <2>7. \A o \in Clerks : o # c => row.inserted \cap clerk[o].inserted = {}
    BY <2>4, <2>5 DEF OpenInv
  <2> HIDE DEF row
  <2> QED BY <2>1, <2>5, <2>6, <2>7, OpenClerkStep
<1> QED BY <1>1, <1>2

LEMMA OpenCommit == ASSUME NumberingInv, OpenInv, NEW c \in Clerks, Commit(c) PROVE OpenInv'
<1> DEFINE I == clerk[c].inserted
<1>1. register' = register \cup Committed(c) /\ clerk' = [clerk EXCEPT ![c] = IdleClerk]
  BY DEF Commit, Committed
<1>2. Numbers' = Numbers \cup I
  BY <1>1, CommittedNumbers
<1>3. /\ clerk'[c].inserted = {}
      /\ \A o \in Clerks : o # c => clerk'[o] = clerk[o]
  BY <1>1, IdleRows, ClerkSet DEF NumberingInv, TypeInv, NumberingTypeOK
<1>4. \A o \in Clerks : clerk'[o].inserted \cap Numbers' = {}
  BY <1>2, <1>3 DEF OpenInv
<1>5. ASSUME NEW a \in Clerks, NEW b \in Clerks, a # b
      PROVE  clerk'[a].inserted \cap clerk'[b].inserted = {}
  BY <1>3, <1>5 DEF OpenInv
<1>6. ASSUME NEW x \in register', NEW y \in register', x.number = y.number PROVE x = y
  <2>1. \A z \in Committed(c) :
          z.number \in I /\ z = [number |-> z.number, registry |-> clerk[c].registry,
                                 registered |-> clerk[c].began]
    BY DEF Committed
  <2>2. \A z \in register : z.number \in Numbers
    BY DEF Numbers
  <2>3. CASE x \in register /\ y \in register
    BY <1>6, <2>3 DEF OpenInv, Book!Unique
  <2>4. CASE x \in Committed(c) /\ y \in Committed(c)
    BY <1>6, <2>1, <2>4
  <2>5. I \cap Numbers = {}
    BY DEF OpenInv
  <2> HIDE DEF I
  <2> QED BY <1>1, <1>6, <2>1, <2>2, <2>3, <2>4, <2>5
<1>7. Book!Unique(register)'
  BY <1>6 DEF Book!Unique
<1> QED BY <1>4, <1>5, <1>7 DEF OpenInv

LEMMA OpenStep ==
    ASSUME NumberingInv, OpenInv, [NumberingNext]_numberingVars PROVE OpenInv'
<1>1. ASSUME NEW c \in Clerks, NEW r \in Registries, Begin(c, r) PROVE OpenInv'
  <2> DEFINE row == [IdleClerk EXCEPT !.pc = "begun", !.registry = r, !.began = year]
  <2>1. clerk' = [clerk EXCEPT ![c] = row] /\ register' = register
    BY <1>1 DEF Begin
  <2>2. row.inserted = {}
    BY DEF IdleClerk
  <2>3. row \in ClerkRow
    <3>1. year \in 0 .. MaxYear
      BY DEF NumberingInv, TypeInv, NumberingTypeOK
    <3> QED BY <3>1, IdleRows DEF ClerkRow
  <2> HIDE DEF row
  <2> QED BY <2>1, <2>2, <2>3, OpenClerkStep
<1>2. ASSUME NEW c \in Clerks, Reserve(c) \/ Insert(c) \/ Commit(c) PROVE OpenInv'
  BY <1>2, OpenReserve, OpenInsert, OpenCommit
<1>3. ASSUME NEW c \in Clerks, Abort(c) PROVE OpenInv'
  BY <1>3, OpenIdle DEF Abort
<1>4. ASSUME UNCHANGED <<register, clerk>> PROVE OpenInv'
  BY <1>4 DEF OpenInv, Book!Unique, Numbers
<1>5. ASSUME \/ \E e \in Editors : EditorStore(e)
             \/ \E e \in Editors, r \in Registries : EditorLoad(e, r) \/ EditorSupply(e, r)
             \/ NewYear
             \/ UNCHANGED numberingVars
      PROVE  UNCHANGED <<register, clerk>>
  BY <1>5 DEF EditorStore, EditorLoad, EditorSupply, EditorHolds, NewYear, numberingVars
<1> QED BY <1>1, <1>2, <1>3, <1>4, <1>5 DEF NumberingNext

\* What is committed leaves no gap.
LEMMA DenseIsConsecutive ==
    ASSUME Dense(Numbers, Chosen) PROVE Book!Consecutive(register, Chosen)
<1> SUFFICES ASSUME NEW x \in register, ~Book!Starts(Chosen, x.number)
             PROVE  \E y \in register : y.number = [x.number EXCEPT !.n = @ - 1]
  BY DEF Book!Consecutive
<1>1. x.number \in Numbers
  BY DEF Numbers
<1>2. [x.number EXCEPT !.n = @ - 1] \in Numbers
  BY <1>1 DEF Dense, Continues
<1> QED BY <1>2 DEF Numbers

\* A commit enters the documents of its request.
LEMMA CommitEnters ==
    ASSUME NumberingInv, FreeInv, OpenInv, NEW c \in Clerks, Commit(c)
    PROVE  Book!Enter(clerk[c].registry)
<1>1. register' = register \cup Committed(c)
  BY DEF Commit, Committed
<1>2. \A x \in Committed(c) : /\ x.registry = clerk[c].registry
                              /\ x.registered = clerk[c].began
                              /\ x.number \in clerk[c].inserted
  BY DEF Committed
<1>3. \A x \in Committed(c) : x.number.prefix = Prefix[x.registry]
  BY <1>2 DEF FreeInv, OwnPrefix
<1>4. NumberingInv' /\ OpenInv'
  BY StepCommit, OpenCommit
<1>5. Book!Unique(register')
  BY <1>4 DEF OpenInv, Book!Unique
<1>6. Chosen' = Chosen
  BY ChosenSame DEF Commit
<1>7. Book!Consecutive(register', Chosen)
  <2>1. Dense(Numbers, Chosen)'
    BY <1>4 DEF NumberingInv
  <2>2. (Dense(Numbers, Chosen) => Book!Consecutive(register, Chosen))'
    BY DenseIsConsecutive, PTL
  <2>3. Book!Consecutive(register', Chosen')
    BY <2>1, <2>2 DEF Book!Consecutive
  <2> QED BY <1>6, <2>3
<1> QED BY <1>1, <1>2, <1>3, <1>5, <1>6, <1>7 DEF Book!Enter

\* REG-027, as a refinement: whatever reserves, waits, fails and is edited beside each
\* other, what commits is a register of consecutive numbers, each given once.  Neither
\* prefixes of their own nor unedited hints are needed.
THEOREM NumberRegisterIsKept == NumberingSpec => KeepsNumberRegister
<1>1. NumberingInit => OpenInv
  <2> SUFFICES ASSUME NumberingInit PROVE OpenInv
    OBVIOUS
  <2>1. \A c \in Clerks : clerk[c].inserted = {}
    BY IdleRows DEF NumberingInit
  <2> QED BY <2>1 DEF OpenInv, Book!Unique, NumberingInit
<1>2. NumberingInv /\ OpenInv /\ [NumberingNext]_numberingVars => OpenInv'
  BY OpenStep
<1>3. NumberingInit => Book!Init
  <2> SUFFICES ASSUME NumberingInit PROVE Book!Init
    OBVIOUS
  <2>1. {e \in Editors : editor[e].pc = "done" /\ editor[e].supplied} = {}
    BY IdleRows DEF NumberingInit
  <2> QED BY <2>1 DEF NumberingInit, Book!Init, Chosen, NoYear
<1>4. ASSUME NumberingInv, FreeInv, OpenInv, [NumberingNext]_numberingVars
      PROVE  [Book!Next]_<<register, Chosen>>
  <2>1. ASSUME NEW c \in Clerks, Commit(c) PROVE Book!Next
    <3>1. clerk[c].registry \in Registries
      BY <1>4, <2>1 DEF Commit, NumberingInv, TypeInv, BusyClerk
    <3> QED BY <1>4, <2>1, <3>1, CommitEnters DEF Book!Next
  <2>2. ASSUME NEW c \in Clerks, Reserve(c) \/ Insert(c) \/ Abort(c)
               \/ \E r \in Registries : Begin(c, r)
        PROVE  UNCHANGED <<register, Chosen>>
    BY <2>2, ChosenSame DEF Reserve, Insert, Abort, Begin
  <2>3. ASSUME NEW e \in Editors, EditorStore(e)
        PROVE  Book!Next \/ UNCHANGED <<register, Chosen>>
    <3>1. /\ editor[e].registry \in Registries
          /\ Chosen' = IF editor[e].supplied THEN Chosen \cup {EditorStart(e)} ELSE Chosen
      BY <1>4, <2>3, ChosenStored DEF EditorStore, NumberingInv, TypeInv, NumberingTypeOK
    <3>2. UNCHANGED register /\ EditorStart(e).prefix = Prefix[editor[e].registry]
      BY <2>3 DEF EditorStore, EditorStart
    <3>3. CASE editor[e].supplied
      <4>1. EditorStart(e) \in Chosen' /\ Book!Choose(EditorStart(e))
        BY <3>1, <3>2, <3>3 DEF Book!Choose
      <4> QED BY <3>1, <3>2, <4>1 DEF Book!Next
    <3> QED BY <3>1, <3>2, <3>3
  <2>4. ASSUME NEW e \in Editors, NEW r \in Registries, EditorLoad(e, r) \/ EditorSupply(e, r)
        PROVE  UNCHANGED <<register, Chosen>>
    <3>1. PICK h, supplied : EditorHolds(e, r, h, supplied)
      BY <2>4 DEF EditorLoad, EditorSupply
    <3>2. Chosen' = Chosen
      BY <1>4, <3>1, ChosenLater DEF NumberingInv, TypeInv, NumberingTypeOK
    <3> QED BY <3>1, <3>2 DEF EditorHolds
  <2>5. NewYear \/ UNCHANGED numberingVars => UNCHANGED <<register, Chosen>>
    BY ChosenSame DEF NewYear, numberingVars
  <2> QED BY <1>4, <2>1, <2>2, <2>3, <2>4, <2>5 DEF NumberingNext
<1>5. NumberingInv /\ FreeInv /\ [NumberingNext]_numberingVars => FreeInv'
  BY FreeStep
<1> QED BY <1>1, <1>2, <1>3, <1>4, <1>5, FreeStart, NumberingInvariant, PTL
        DEF NumberingSpec, KeepsNumberRegister, Book!Spec
=============================================================================
