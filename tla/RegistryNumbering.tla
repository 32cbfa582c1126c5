-------------------------- MODULE RegistryNumbering --------------------------
(***************************************************************************)
(* Registry numbers PREFIX-YEAR-N: CreateDocument and                      *)
(* BatchCreateDocuments reserve the next number of a registry under the    *)
(* row lock of "registre" and keep the hint of the following number in     *)
(* nr_urmator; updateRegistry and SaveAdminRegistry write the whole row    *)
(* back, with the hint as it was when it was read or with one the request  *)
(* supplies.  A registry starts at its nr_inceput, several registries may  *)
(* have one prefix, and the prefix of a registry stays as it is.           *)
(***************************************************************************)
EXTENDS Integers, FiniteSets

CONSTANTS
    Registries,  \* registre rows
    Prefix,      \* prefix_nr of each registry, without a hyphen
    Start,       \* nr_inceput of each registry
    Supplied,    \* hints that an edit may supply
    NoRegistry,  \* a request without a registry
    Clerks,      \* creation requests under way
    Editors,     \* edits of a registry, one each
    MaxBatch,    \* documents created by one request, 20 in production
    MaxYear,     \* bound: last year
    MaxDocs      \* bound: documents in the register

ASSUME NumberingAssumption ==
    /\ NoRegistry \notin Registries
    /\ Start \in [Registries -> Nat \ {0}]
    /\ Supplied \subseteq [year : 0 .. MaxYear + 1, n : Nat \ {0}]
    /\ MaxBatch \in Nat \ {0}
    /\ MaxYear \in Nat \ {0}
    /\ MaxDocs \in Nat

VARIABLES
    year,      \* of the application clock and of the database clock
    hint,      \* nr_urmator of each registry
    register,  \* the numbers and registries of registratura_documents
    clerk,     \* the creations
    editor     \* the edits

numberingVars == <<year, hint, register, clerk, editor>>

-----------------------------------------------------------------------------
NoYear     == 0                 \* a plain number such as 0001: good in any year
Unreadable == MaxYear + 1       \* no number, or one of another prefix: good in no year
HintRow    == [year : 0 .. MaxYear + 1, n : Nat \ {0}]
Number     == [prefix : {Prefix[r] : r \in Registries}, year : 1 .. MaxYear, n : Nat \ {0}]
DocumentRow == [number : Number, registry : Registries, registered : 1 .. MaxYear]

NoNumber == [prefix |-> "none", year |-> NoYear, n |-> 0]

\* inserted: the numbers of the open transaction; hint: nr_urmator as it sees it.
ClerkRow   == [pc : {"idle", "begun", "reserved", "inserted"},
               registry : Registries \cup {NoRegistry}, began : 0 .. MaxYear,
               number : Number \cup {NoNumber}, inserted : SUBSET Number, hint : HintRow]
EditorRow  == [pc : {"idle", "loaded", "done"}, registry : Registries \cup {NoRegistry},
               hint : HintRow, supplied : BOOLEAN]
NoHint     == [year |-> NoYear, n |-> 1]
FirstHint(r) == [year |-> NoYear, n |-> Start[r]]
IdleClerk  == [pc |-> "idle", registry |-> NoRegistry, began |-> NoYear,
               number |-> NoNumber, inserted |-> {}, hint |-> NoHint]
IdleEditor == [pc |-> "idle", registry |-> NoRegistry, hint |-> NoHint, supplied |-> FALSE]

NumberingTypeOK ==
    /\ year \in 1 .. MaxYear
    /\ hint \in [Registries -> HintRow]
    /\ register \subseteq DocumentRow
    /\ clerk \in [Clerks -> ClerkRow]
    /\ editor \in [Editors -> EditorRow]

NumberingInit ==
    /\ year = 1
    /\ hint = [r \in Registries |-> FirstHint(r)]
    /\ register = {}
    /\ clerk = [c \in Clerks |-> IdleClerk]
    /\ editor = [e \in Editors |-> IdleEditor]

-----------------------------------------------------------------------------
(* nextRegistryNumber.                                                     *)

\* The hint counts when it is a plain number or of this year.
Usable(h) == h.year \in {NoYear, year}

\* Otherwise the highest number of this year among the registry's documents that
\* were registered this year, plus one.
UsedThisYear(r) ==
    {x.number.n : x \in {y \in register : /\ y.registry = r
                                          /\ y.registered = year
                                          /\ y.number.prefix = Prefix[r]
                                          /\ y.number.year = year}}
AfterLast(r) == 1 + CHOOSE n \in UsedThisYear(r) \cup {0} : \A m \in UsedThisYear(r) : m =< n

NextNumber(r, h) == [prefix |-> Prefix[r], year |-> year,
                     n |-> IF Usable(h) THEN h.n ELSE AfterLast(r)]
Following(number) == [year |-> number.year, n |-> number.n + 1]

Numbers == {x.number : x \in register}

-----------------------------------------------------------------------------
(* CreateDocument and BatchCreateDocuments: one transaction, seen by       *)
(* nobody until its COMMIT.                                                *)

\* Mutant: the row is read without "for update".
NeverLocked(r) == FALSE
RowLocked(r) == \E c \in Clerks : clerk[c].pc \in {"reserved", "inserted"} /\ clerk[c].registry = r

\* registered_at is the time at which the transaction began.
Begin(c, r) ==
    /\ clerk[c].pc = "idle"
    /\ Cardinality(register) < MaxDocs
    /\ clerk' = [clerk EXCEPT ![c] = [IdleClerk EXCEPT !.pc = "begun", !.registry = r,
                                                       !.began = year]]
    /\ UNCHANGED <<year, hint, register, editor>>

\* The first number takes the row lock; later ones of a batch use the hint that the
\* transaction has written.
Reserved(c) ==
    LET r == clerk[c].registry
        h == IF clerk[c].pc = "begun" THEN hint[r] ELSE clerk[c].hint
    IN  /\ \/ clerk[c].pc = "begun" /\ ~RowLocked(r)
           \/ clerk[c].pc = "inserted" /\ Cardinality(clerk[c].inserted) < MaxBatch
        /\ clerk' = [clerk EXCEPT ![c].pc = "reserved", ![c].number = NextNumber(r, h)]
\* Mutant: nr_urmator moves on before the transaction commits.
ReserveForGood(c) ==
    /\ Reserved(c)
    /\ hint' = [hint EXCEPT ![clerk[c].registry] = Following(clerk'[c].number)]
    /\ UNCHANGED <<year, register, editor>>
Reserve(c) ==
    /\ Reserved(c)
    /\ UNCHANGED <<year, hint, register, editor>>

\* Mutant: registry_number is not unique in the database.
InsertDuplicate(c) ==
    /\ clerk[c].pc = "reserved"
    /\ clerk' = [clerk EXCEPT ![c].pc = "inserted",
                             ![c].inserted = @ \cup {clerk[c].number},
                             ![c].hint = Following(clerk[c].number)]
    /\ UNCHANGED <<year, hint, register, editor>>
\* unique (tenant_code, registry_number): the insert waits for an open transaction
\* with the same number and fails, with the whole request, on a committed one.
Insert(c) ==
    /\ clerk[c].pc = "reserved"
    /\ \A o \in Clerks \ {c} : clerk[c].number \notin clerk[o].inserted
    /\ clerk' = IF clerk[c].number \in Numbers \cup clerk[c].inserted
                THEN [clerk EXCEPT ![c] = IdleClerk]
                ELSE [clerk EXCEPT ![c].pc = "inserted",
                                   ![c].inserted = @ \cup {clerk[c].number},
                                   ![c].hint = Following(clerk[c].number)]
    /\ UNCHANGED <<year, hint, register, editor>>

Commit(c) ==
    LET r == clerk[c].registry IN
    /\ clerk[c].pc = "inserted"
    /\ register' = register \cup {[number |-> n, registry |-> r, registered |-> clerk[c].began] :
                                     n \in clerk[c].inserted}
    /\ hint' = [hint EXCEPT ![r] = clerk[c].hint]
    /\ clerk' = [clerk EXCEPT ![c] = IdleClerk]
    /\ UNCHANGED <<year, editor>>

\* Any error on the way, or a lost connection: everything is rolled back.
Abort(c) ==
    /\ clerk[c].pc # "idle"
    /\ clerk' = [clerk EXCEPT ![c] = IdleClerk]
    /\ UNCHANGED <<year, hint, register, editor>>

-----------------------------------------------------------------------------
(* Editing a registry: findRegistryByID or the form, then the update.      *)

\* The request brings the hint that was read, or another one.
EditorHolds(e, r, h, supplied) ==
    /\ editor[e].pc = "idle"
    /\ editor' = [editor EXCEPT ![e] = [pc |-> "loaded", registry |-> r, hint |-> h,
                                        supplied |-> supplied]]
    /\ UNCHANGED <<year, hint, register, clerk>>

EditorLoad(e, r)   == EditorHolds(e, r, hint[r], FALSE)
EditorSupply(e, r) == \E h \in Supplied : EditorHolds(e, r, h, TRUE)

EditorStore(e) ==
    /\ editor[e].pc = "loaded"
    /\ ~RowLocked(editor[e].registry)
    /\ hint' = [hint EXCEPT ![editor[e].registry] = editor[e].hint]
    /\ editor' = [editor EXCEPT ![e].pc = "done"]
    /\ UNCHANGED <<year, register, clerk>>

NewYear ==
    /\ year < MaxYear
    /\ year' = year + 1
    /\ UNCHANGED <<hint, register, clerk, editor>>

-----------------------------------------------------------------------------
(* Properties.                                                             *)

\* The numbers from which somebody wanted a prefix to be numbered: nr_inceput of its
\* registries, and the hints that finished edits have supplied.
Chosen ==
    {[prefix |-> Prefix[r], year |-> NoYear, n |-> Start[r]] : r \in Registries}
    \cup {[prefix |-> Prefix[editor[e].registry], year |-> editor[e].hint.year,
            n |-> editor[e].hint.n] :
              e \in {f \in Editors : editor[f].pc = "done" /\ editor[f].supplied}}

\* The commits implement a register in which requests enter consecutive numbers once,
\* also when edits, or registries of one prefix, made two requests reserve the same one.
Book == INSTANCE NumberRegister WITH chosen <- Chosen

KeepsNumberRegister == Book!Spec

\* Requirement REG-027: no number is lost, whoever fails, whatever is written back: a
\* number in use is 1, one that somebody chose, or the one after a number in use.
NumbersConsecutive ==
    \A x \in Numbers : \/ Book!Starts(Chosen, x)
                       \/ [x EXCEPT !.n = @ - 1] \in Numbers

\* REG-027: concurrent requests never receive the same number.
ReservedNumberIsFree ==
    \A c \in Clerks : clerk[c].pc = "reserved" => clerk[c].number \notin Numbers

\* The same for a registry that nobody edited and that has its prefix for itself: no
\* other request, rollback, batch or new year makes it give a number in use.
Edited(r) == \E e \in Editors : editor[e].pc = "done" /\ editor[e].registry = r
Alone(r)  == \A s \in Registries : Prefix[s] = Prefix[r] => s = r
UneditedNumberIsFree ==
    \A c \in Clerks :
        clerk[c].pc = "reserved" /\ ~Edited(clerk[c].registry) /\ Alone(clerk[c].registry)
            => clerk[c].number \notin Numbers

-----------------------------------------------------------------------------
NumberingNext ==
    \/ \E c \in Clerks : \/ \E r \in Registries : Begin(c, r)
                         \/ Reserve(c)
                         \/ Insert(c)
                         \/ Commit(c)
                         \/ Abort(c)
    \/ \E e \in Editors : \/ \E r \in Registries : EditorLoad(e, r) \/ EditorSupply(e, r)
                          \/ EditorStore(e)
    \/ NewYear

NumberingSpec == NumberingInit /\ [][NumberingNext]_numberingVars
=============================================================================
