----------------------------- MODULE BootProofs -----------------------------
(***************************************************************************)
(* Proofs about the way to a running robot: any two configuration files,   *)
(* with tables nested to any depth, are merged (MergeConfig), and any      *)
(* number of processes start, fail and end around one serial port (Boot).  *)
(***************************************************************************)
EXTENDS Boot, MergeConfig, SequenceTheorems, TLAPS

-----------------------------------------------------------------------------
(* The serial port and the processes that start and end.                    *)

\* Between flock and close, and between tcsetattr and close.
Configured == {"flush", "motor", "run", "unwind", "unwound", "delete", "deleted"}
Holding == {"configure"} \cup Configured

BootPlaces ==
    {"start", "parse", "name", "defaults", "failed", "chassis", "rs485", "open", "lock",
     "return", "gone"} \cup Holding

\* The lock is held by the process that is between flock and its release, and
\* by no other: there is never more than one of those.
LockInv ==
    /\ pc \in [Processes -> BootPlaces]
    /\ lock \in Processes \cup {Nobody}
    /\ \A p \in Processes : lock = p <=> pc[p] \in Holding

BootInv == LockInv /\ LineIsMine

LEMMA BootInit == Init => BootInv
BY BootAssumption DEF Init, BootInv, LockInv, LineIsMine, BootPlaces, Holding, Configured

\* A step that takes p from one place to another, neither of them with the lock.
LEMMA WithoutLock ==
    ASSUME BootInv, NEW p \in Processes, NEW from \in BootPlaces \ Holding,
           NEW to \in BootPlaces \ Holding,
           At(p, from, to), UNCHANGED <<lock, line>>
    PROVE  BootInv'
BY DEF BootInv, LockInv, LineIsMine, At, Holding, Configured

\* A step that takes p from one place to another with the port configured.
LEMMA WithLine ==
    ASSUME BootInv, NEW p \in Processes, NEW from \in Configured, NEW to \in Configured,
           At(p, from, to), lock' = lock, line' \in {line, p}
    PROVE  BootInv'
BY DEF BootInv, LockInv, LineIsMine, At, Holding, Configured, BootPlaces

\* The end of a process, wherever it is.
LEMMA EndKeeps ==
    ASSUME BootInv, NEW p \in Processes, Ends(p)
    PROVE  BootInv'
BY BootAssumption DEF Ends, BootInv, LockInv, LineIsMine, Holding, Configured, BootPlaces

\* A close gives the lock back and leaves the part of the program that needs it.
LEMMA CloseKeeps ==
    ASSUME BootInv, NEW p \in Processes, NEW from \in Holding,
           NEW to \in BootPlaces \ Holding, Close(p, from, to)
    PROVE  BootInv'
BY BootAssumption DEF Close, At, BootInv, LockInv, LineIsMine, Holding, Configured, BootPlaces

\* Aokee::Aokee up to the lock, then with it.
LEMMA ConstructKeeps ==
    ASSUME BootInv, NEW p \in Processes, Construct(p)
    PROVE  BootInv'
<1>1. ASSUME NEW part \in {"chassis", "rs485"}, NEW to \in {"rs485", "open"},
             ReadKeys(p, part, to, "failed")
      PROVE  BootInv'
  <2>1. PICK t \in {to, "failed"} : At(p, part, t)
    BY <1>1 DEF ReadKeys
  <2>2. UNCHANGED <<lock, line>>
    BY <1>1 DEF ReadKeys
  <2> QED
    BY <2>1, <2>2, WithoutLock DEF BootPlaces, Holding, Configured
<1>2. CASE OpenPort(p)
  <2>1. CASE At(p, "open", "lock") /\ UNCHANGED <<file, wrong, lock, line>>
    BY <2>1, WithoutLock DEF BootPlaces, Holding, Configured
  <2> QED
    BY <1>2, <2>1, EndKeeps DEF OpenPort
<1>3. CASE LockPort(p)
  <2>1. CASE lock = Nobody /\ At(p, "lock", "configure") /\ lock' = p /\ UNCHANGED <<file, wrong, line>>
    BY <2>1, BootAssumption DEF At, BootInv, LockInv, LineIsMine, Holding, Configured, BootPlaces
  <2> QED
    BY <1>3, <2>1, EndKeeps DEF LockPort
<1>4. CASE ConfigurePort(p)
  <2>1. CASE At(p, "configure", "flush") /\ line' = p /\ UNCHANGED <<file, wrong, lock>>
    BY <2>1 DEF At, BootInv, LockInv, LineIsMine, Holding, Configured, BootPlaces
  <2> QED
    BY <1>4, <2>1, EndKeeps DEF ConfigurePort
<1>5. CASE FlushPort(p)
  <2>1. CASE At(p, "flush", "motor") /\ line' = p /\ UNCHANGED <<file, wrong, lock>>
    BY <2>1, WithLine DEF Configured
  <2> QED
    BY <1>5, <2>1, EndKeeps DEF FlushPort
<1>6. CASE ReadKeys(p, "motor", "run", "unwind")
  <2>1. PICK t \in {"run", "unwind"} : At(p, "motor", t)
    BY <1>6 DEF ReadKeys
  <2>2. UNCHANGED <<lock, line>>
    BY <1>6 DEF ReadKeys
  <2> QED
    BY <2>1, <2>2, WithLine DEF Configured
<1> QED
  BY <1>1, <1>2, <1>3, <1>4, <1>5, <1>6 DEF Construct

\* ~Serial, of a robot that ran and of one whose constructor threw.
LEMMA DestroyKeepsPort ==
    ASSUME BootInv, NEW p \in Processes, Destroy(p)
    PROVE  BootInv'
<1>1. ASSUME NEW from \in Configured, NEW to \in Configured, Flush(p, from, to)
      PROVE  BootInv'
  BY <1>1, WithLine DEF Flush
<1>2. ASSUME NEW from \in Holding, NEW to \in BootPlaces \ Holding, Close(p, from, to)
      PROVE  BootInv'
  BY <1>2, CloseKeeps
<1> QED
  BY <1>1, <1>2 DEF Destroy, Configured, Holding, BootPlaces

\* Everything before the constructor.
LEMMA StartKeeps ==
    ASSUME BootInv, NEW p \in Processes,
           Arguments(p) \/ Parse(p) \/ Name(p) \/ Defaults(p) \/ Restart(p)
    PROVE  BootInv'
<1>1. Ends(p)
      \/ /\ \E from, to \in BootPlaces \ Holding : At(p, from, to)
         /\ UNCHANGED <<lock, line>>
  BY DEF Arguments, Parse, Name, Defaults, Restart, BootPlaces, Holding, Configured
<1> QED
  BY <1>1, WithoutLock, EndKeeps

LEMMA BootNext == BootInv /\ [Next]_vars => BootInv'
<1> SUFFICES ASSUME BootInv, [Next]_vars PROVE BootInv'
  OBVIOUS
<1>1. ASSUME UNCHANGED vars PROVE BootInv'
  BY <1>1 DEF vars, BootInv, LockInv, LineIsMine
<1>2. ASSUME NEW p \in Processes, Step(p) PROVE BootInv'
  BY <1>2, StartKeeps, EndKeeps, ConstructKeeps, DestroyKeepsPort DEF Step, ReturnError, Return
<1>3. ASSUME NEW p \in Processes, RunReturns(p) PROVE BootInv'
  BY <1>3, WithLine DEF RunReturns, Configured
<1>4. ASSUME NEW p \in Processes, Sigint(p) \/ Restart(p) PROVE BootInv'
  BY <1>4, EndKeeps, StartKeeps DEF Sigint
<1> QED
  BY <1>1, <1>2, <1>3, <1>4 DEF Next

\* However many processes start, fail, are interrupted and start again: from
\* tcsetattr to its own close, one has the line to itself (Serial::Serial,
\* Serial::~Serial).
THEOREM LineIsMineHolds == Spec => []LineIsMine
<1>1. BootInv => LineIsMine
  BY DEF BootInv
<1> QED
  BY BootInit, BootNext, <1>1, PTL DEF Spec

\* A start that fails holds no lock by the time main returns, and neither does
\* a process that has ended: the next one can have the port.
THEOREM FailureReleasesHolds == Spec => []FailureReleases
<1>1. BootInv => FailureReleases
  BY DEF BootInv, LockInv, FailureReleases, Holding, Configured
<1> QED
  BY BootInit, BootNext, <1>1, PTL DEF Spec

-----------------------------------------------------------------------------
(* mergeConfig: the calls that are under way.                               *)

\* The loop of call i has still to visit the key that leads to p.
Reaches(i, p) == i <= Len(p) /\ (\A j \in 1 .. i - 1 : p[j] = at[j]) /\ p[i] \in unvisited[i]
Pending(p) == \E i \in DOMAIN unvisited : Reaches(i, p)

\* The file whose entry at p is merged into the other one.
Own(p) == IF Len(p) % 2 = 1 THEN userFile ELSE defaultFile

MergeTypes ==
    /\ userFile \in Trees("user") /\ defaultFile \in Trees("default")
    /\ user = [p \in Paths |-> user[p]] /\ config = [p \in Paths |-> config[p]]
    /\ at \in Paths /\ unvisited \in Seq(SUBSET Names)
    /\ unvisited # <<>> => Len(unvisited) = Len(at) + 1

\* The calls go down a path of tables that both files have, each of them
\* through a key its loop has visited, and what it has still to visit exists.
Stack ==
    /\ unvisited # <<>> => Shared(at)
    /\ \A i \in DOMAIN unvisited :
           /\ i <= Len(at) => at[i] \notin unvisited[i]
           /\ \A k \in unvisited[i] : \E p \in Paths :
                  /\ Len(p) = i /\ p[i] = k /\ \A j \in 1 .. i - 1 : p[j] = at[j]
                  /\ Own(p)[p] # "none"

\* A table of both files stays one.
Tables == \A p \in Paths : Shared(p) => AreTables(p)

\* A contested entry and all below it are those of one file or the other,
\* depending on whether its key has been visited.
Contents ==
    \A p, q \in Paths : Contested(p) /\ IsPrefix(p, q) =>
        /\ config[q] = IF Len(p) % 2 = 1 /\ userFile[p] # "none" /\ ~Pending(p)
                       THEN userFile[q] ELSE defaultFile[q]
        /\ user[q] = IF Len(p) % 2 = 0 /\ defaultFile[p] # "none" /\ ~Pending(p)
                     THEN defaultFile[q] ELSE userFile[q]

MergeInv == MergeTypes /\ Stack /\ Tables /\ Contents

-----------------------------------------------------------------------------
(* Paths.                                                                   *)

\* The entry at q is the one at p or stands somewhere in it.
Below(p, q) == Len(p) <= Len(q) /\ \A i \in 1 .. Len(p) : q[i] = p[i]

LEMMA PathIs ==
    ASSUME NEW p \in Paths
    PROVE  p \in Seq(Names) /\ Len(p) \in Nat /\ \A i \in 1 .. Len(p) : p[i] \in Names
BY PathsAssumption

LEMMA SamePath ==
    ASSUME NEW p \in Paths, NEW q \in Paths, Len(p) = Len(q), Below(p, q)
    PROVE  p = q
<1>1. p \in Seq(Names) /\ q \in Seq(Names) /\ \A i \in 1 .. Len(p) : p[i] = q[i]
  BY PathIs DEF Below
<1> QED
  BY <1>1

LEMMA PrefixIs ==
    ASSUME NEW p \in Paths, NEW q \in Paths
    PROVE  /\ IsPrefix(p, q) <=> Below(p, q)
           /\ IsStrictPrefix(p, q) <=> Below(p, q) /\ Len(p) < Len(q)
<1>1. p \in Seq(Names) /\ q \in Seq(Names) /\ Len(p) \in Nat /\ Len(q) \in Nat
  BY PathIs
<1>2. IsPrefix(p, q) => Below(p, q)
  <2>1. SUFFICES ASSUME IsPrefix(p, q), NEW i \in 1 .. Len(p) PROVE q[i] = p[i]
    BY DEF IsPrefix, Below
  <2>2. SubSeq(p, 1, Len(p))[i] = p[i] /\ SubSeq(q, 1, Len(p))[i] = q[i]
    BY <1>1, <2>1 DEF IsPrefix
  <2> QED
    BY <2>1, <2>2 DEF IsPrefix
<1>3. Below(p, q) => IsPrefix(p, q)
  <2>1. SUFFICES ASSUME Below(p, q) PROVE SubSeq(p, 1, Len(p)) = SubSeq(q, 1, Len(p))
    BY DEF IsPrefix, Below
  <2>2. /\ SubSeq(p, 1, Len(p)) = [i \in 1 .. Len(p) |-> p[i]]
        /\ SubSeq(q, 1, Len(p)) = [i \in 1 .. Len(p) |-> q[i]]
    BY <1>1, <2>1 DEF Below
  <2> QED
    BY <2>1, <2>2 DEF Below
<1>4. Below(p, q) /\ p # q => Len(p) < Len(q)
  BY <1>1, SamePath DEF Below
<1> QED
  BY <1>1, <1>2, <1>3, <1>4 DEF IsStrictPrefix

\* Every path has one of each shorter length above it.
LEMMA PathAbove ==
    ASSUME NEW p \in Paths, NEW n \in 0 .. Len(p)
    PROVE  \E r \in Paths : Len(r) = n /\ Below(r, p)
<1>1. p \in Seq(Names)
  BY PathIs
<1>2. SubSeq(p, 1, n) \in Paths
  BY PathsAssumption
<1>3. PICK r \in Paths : r = SubSeq(p, 1, n)
  BY <1>2
<1>4. Len(r) = n /\ \A i \in 1 .. n : r[i] = p[i]
  BY <1>1, <1>3
<1>5. n <= Len(p)
  BY <1>1
<1> QED
  BY <1>4, <1>5 DEF Below

\* Two paths with a common end.
LEMMA BelowOrder ==
    ASSUME NEW p \in Paths, NEW r \in Paths, NEW q \in Paths, Len(p) <= Len(r)
    PROVE  /\ Below(p, q) /\ Below(r, q) => Below(p, r)
           /\ Below(p, r) /\ Below(r, q) => Below(p, q)
BY PathIs DEF Below

\* The path of an entry of a table.
LEMMA EntryPath ==
    ASSUME NEW p \in Paths, NEW k \in Names, Append(p, k) \in Paths
    PROVE  /\ Len(Append(p, k)) = Len(p) + 1
           /\ Append(p, k)[Len(p) + 1] = k
           /\ \A i \in 1 .. Len(p) : Append(p, k)[i] = p[i]
           /\ Below(p, Append(p, k))
BY PathIs DEF Below

LEMMA EntryOf ==
    ASSUME NEW p \in Paths, NEW r \in Paths, Len(r) = Len(p) + 1, Below(p, r)
    PROVE  r[Len(r)] \in Names /\ r = Append(p, r[Len(r)])
<1>1. p \in Seq(Names) /\ r \in Seq(Names) /\ Len(p) \in Nat /\ r[Len(r)] \in Names
  BY PathIs
<1>2. PICK k \in Names : k = r[Len(r)]
  BY <1>1
<1>3. Append(p, k) \in Seq(Names) /\ Len(Append(p, k)) = Len(r)
      /\ \A i \in 1 .. Len(r) : Append(p, k)[i] = r[i]
  BY <1>1, <1>2 DEF Below
<1>4. Append(p, k) = r
  BY <1>1, <1>3
<1> QED
  BY <1>2, <1>4

-----------------------------------------------------------------------------
(* What the files share and what they contest.                              *)

LEMMA RootShared == MergeTypes => Root \in Paths /\ Len(Root) = 0 /\ Shared(Root)
BY PathsAssumption DEF MergeTypes, Trees, Shared, Root

LEMMA SharedAbove ==
    ASSUME MergeTypes, NEW p \in Paths, NEW q \in Paths, Below(p, q), Shared(q)
    PROVE  Shared(p)
<1>1. CASE p = q
  BY <1>1
<1>2. CASE p # q
  <2>1. IsStrictPrefix(p, q)
    BY <1>2, PrefixIs DEF IsStrictPrefix
  <2> QED
    BY <2>1 DEF MergeTypes, Trees, Shared
<1> QED
  BY <1>1, <1>2

LEMMA ContestedIs ==
    ASSUME NEW p \in Paths
    PROVE  Contested(p) <=>
               ~Shared(p) /\ \A q \in Paths : Below(q, p) /\ Len(q) < Len(p) => Shared(q)
BY PrefixIs DEF Contested

\* No contested entry stands in another one.
LEMMA ContestedApart ==
    ASSUME NEW p \in Paths, NEW r \in Paths, NEW q \in Paths,
           Contested(p), Contested(r), Below(p, q), Below(r, q)
    PROVE  p = r
<1>1. Len(p) \in Nat /\ Len(r) \in Nat
  BY PathIs
<1>2. ~(Len(p) < Len(r))
  <2>1. Len(p) < Len(r) => Below(p, r)
    BY <1>1, BelowOrder
  <2> QED
    BY <2>1, ContestedIs
<1>3. ~(Len(r) < Len(p))
  <2>1. Len(r) < Len(p) => Below(r, p)
    BY <1>1, BelowOrder
  <2> QED
    BY <2>1, ContestedIs
<1>4. Len(p) = Len(r)
  BY <1>1, <1>2, <1>3
<1>5. Below(p, r)
  BY <1>1, <1>4, BelowOrder
<1> QED
  BY <1>4, <1>5, SamePath

\* An entry of a table that both files have is one in both, or contested.
LEMMA SharedOrContested ==
    ASSUME MergeTypes, NEW p \in Paths, NEW r \in Paths,
           Len(r) = Len(p) + 1, Below(p, r), Shared(p)
    PROVE  Shared(r) \/ Contested(r)
<1>1. ASSUME NEW q \in Paths, Below(q, r), Len(q) < Len(r) PROVE Shared(q)
  <2>1. Len(q) \in Nat /\ Len(p) \in Nat
    BY PathIs
  <2>2. Len(q) <= Len(p)
    BY <1>1, <2>1
  <2>3. Below(q, p)
    BY <1>1, <2>2, BelowOrder
  <2> QED
    BY <2>3, SharedAbove
<1> QED
  BY <1>1, ContestedIs

\* The entry that an unfinished loop has still to visit.
LEMMA KeyPath ==
    ASSUME MergeInv, unvisited # <<>>, NEW k \in Last(unvisited)
    PROVE  /\ k \in Names /\ Append(at, k) \in Paths
           /\ Len(Append(at, k)) = Len(at) + 1 /\ Below(at, Append(at, k))
           /\ Own(Append(at, k))[Append(at, k)] # "none"
           /\ Pending(Append(at, k))
<1> USE DEF MergeInv
<1>1. PICK n \in Nat : n = Len(at) + 1 /\ n = Len(unvisited) /\ n \in DOMAIN unvisited
  <2>1. at \in Paths /\ unvisited \in Seq(SUBSET Names) /\ Len(unvisited) = Len(at) + 1
    BY DEF MergeTypes
  <2>2. Len(at) \in Nat
    BY <2>1, PathIs
  <2> QED
    BY <2>1, <2>2
<1>2. k \in unvisited[n] /\ k \in Names
  BY <1>1 DEF Last, MergeTypes
<1>3. PICK p \in Paths : /\ Len(p) = n /\ p[n] = k /\ \A j \in 1 .. n - 1 : p[j] = at[j]
                         /\ Own(p)[p] # "none"
  BY <1>1, <1>2 DEF Stack
<1>4. at \in Paths /\ Len(at) \in Nat /\ Len(at) = n - 1
  BY <1>1, PathIs DEF MergeTypes
<1>5. Below(at, p)
  BY <1>3, <1>4 DEF Below
<1>6. p = Append(at, k)
  BY <1>3, <1>4, <1>5, EntryOf
<1>7. Pending(p)
  BY <1>1, <1>2, <1>3 DEF Pending, Reaches
<1> QED
  BY <1>1, <1>2, <1>3, <1>5, <1>6, <1>7

\* What is left of the loops when one has visited a key.
LEMMA LessInLast ==
    ASSUME NEW S, NEW t \in Seq(SUBSET S), NEW n \in 1 .. Len(t), NEW k
    PROVE  /\ [t EXCEPT ![n] = @ \ {k}] \in Seq(SUBSET S)
           /\ Len([t EXCEPT ![n] = @ \ {k}]) = Len(t)
           /\ \A i \in 1 .. Len(t) :
                  [t EXCEPT ![n] = @ \ {k}][i] = IF i = n THEN t[i] \ {k} ELSE t[i]
<1>1. t[n] \in SUBSET S
  OBVIOUS
<1>2. t[n] \ {k} \in SUBSET S
  BY <1>1
<1> DEFINE e == t[n] \ {k}
<1>3. [t EXCEPT ![n] = @ \ {k}] = [t EXCEPT ![n] = e]
  OBVIOUS
<1>4. e \in SUBSET S
  BY <1>2
<1> HIDE DEF e
<1>5. /\ [t EXCEPT ![n] = e] \in Seq(SUBSET S)
      /\ Len([t EXCEPT ![n] = e]) = Len(t)
      /\ \A i \in 1 .. Len(t) : [t EXCEPT ![n] = e][i] = IF i = n THEN e ELSE t[i]
  BY <1>4, ExceptSeq
<1>6. e = t[n] \ {k}
  BY DEF e
<1>7. \A i \in 1 .. Len(t) : [t EXCEPT ![n] = e][i] = IF i = n THEN t[i] \ {k} ELSE t[i]
  <2>1. SUFFICES ASSUME NEW i \in 1 .. Len(t)
                 PROVE  [t EXCEPT ![n] = e][i] = IF i = n THEN t[i] \ {k} ELSE t[i]
    OBVIOUS
  <2>2. [t EXCEPT ![n] = e][i] = IF i = n THEN e ELSE t[i]
    BY <1>5, Zenon
  <2> QED
    BY <1>6, <2>2
<1> QED
  BY <1>3, <1>5, <1>7

LEMMA VisitedIs ==
    ASSUME MergeInv, unvisited # <<>>, NEW k \in Last(unvisited)
    PROVE  /\ Visited(k) \in Seq(SUBSET Names) /\ Len(Visited(k)) = Len(unvisited)
           /\ Len(unvisited) = Len(at) + 1 /\ Len(at) \in Nat
           /\ \A i \in DOMAIN unvisited :
                  Visited(k)[i] = IF i = Len(unvisited) THEN unvisited[i] \ {k} ELSE unvisited[i]
<1>1. at \in Paths /\ unvisited \in Seq(SUBSET Names) /\ Len(unvisited) = Len(at) + 1
  BY DEF MergeInv, MergeTypes
<1>2. Len(at) \in Nat
  BY <1>1, PathIs
<1>3. Len(unvisited) \in 1 .. Len(unvisited) /\ DOMAIN unvisited = 1 .. Len(unvisited)
  BY <1>1, <1>2
<1> QED
  BY <1>1, <1>2, <1>3, LessInLast DEF Visited

-----------------------------------------------------------------------------
(* The invariant of mergeConfig.                                            *)

\* The file that a contested entry comes from while it is pending, and after.
LEMMA ContentsAre ==
    ASSUME MergeInv, NEW p \in Paths, NEW q \in Paths, Contested(p), Below(p, q)
    PROVE  /\ Len(p) % 2 = 1 \/ Len(p) % 2 = 0
           /\ Len(p) % 2 = 1 =>
                  /\ user[q] = userFile[q]
                  /\ config[q] = IF userFile[p] # "none" /\ ~Pending(p) THEN userFile[q]
                                 ELSE defaultFile[q]
           /\ Len(p) % 2 = 0 =>
                  /\ config[q] = defaultFile[q]
                  /\ user[q] = IF defaultFile[p] # "none" /\ ~Pending(p) THEN defaultFile[q]
                               ELSE userFile[q]
<1>1. Len(p) \in Nat /\ IsPrefix(p, q)
  BY PathIs, PrefixIs
<1>2. Len(p) % 2 = 1 \/ Len(p) % 2 = 0
  BY <1>1
<1> QED
  BY <1>1, <1>2 DEF MergeInv, Contents

\* In terms of the files, a step that keeps what is pending keeps the contents.
LEMMA PendingKept ==
    ASSUME MergeInv, UNCHANGED <<userFile, defaultFile, user, config>>,
           \A p \in Paths : Contested(p) /\ Own(p)[p] # "none" => (Pending(p)' <=> Pending(p))
    PROVE  Tables' /\ Contents'
<1>1. Tables'
  BY DEF MergeInv, Tables, Shared, AreTables
<1>2. ASSUME NEW p \in Paths, NEW q \in Paths, Contested(p), IsPrefix(p, q)
      PROVE  /\ config[q] = IF Len(p) % 2 = 1 /\ userFile[p] # "none" /\ ~Pending(p)'
                            THEN userFile[q] ELSE defaultFile[q]
             /\ user[q] = IF Len(p) % 2 = 0 /\ defaultFile[p] # "none" /\ ~Pending(p)'
                          THEN defaultFile[q] ELSE userFile[q]
  <2>1. Below(p, q)
    BY <1>2, PrefixIs
  <2>2. Own(p) = IF Len(p) % 2 = 1 THEN userFile ELSE defaultFile
    BY DEF Own
  <2> QED
    BY <1>2, <2>1, <2>2, ContentsAre
<1>3. \A p : Contested(p)' <=> Contested(p)
  BY DEF Contested, Shared
<1> QED
  BY <1>1, <1>2, <1>3 DEF Contents

LEMMA MergeStarts == MergeInit => MergeInv
<1> SUFFICES ASSUME MergeInit PROVE MergeInv
  OBVIOUS
<1>1. user = userFile /\ config = defaultFile /\ at = Root /\ unvisited = <<KeysAt(user, Root)>>
      /\ userFile \in Trees("user") /\ defaultFile \in Trees("default")
  BY DEF MergeInit
<1>2. MergeTypes
  <2>1. KeysAt(user, Root) \in SUBSET Names
    BY DEF KeysAt
  <2>2. Root \in Paths /\ Len(Root) = 0
    BY PathsAssumption DEF Root
  <2> QED
    BY <1>1, <2>1, <2>2 DEF MergeTypes, Trees
<1>3. Root \in Paths /\ Len(Root) = 0 /\ Shared(Root)
  BY <1>2, RootShared
<1>4. DOMAIN unvisited = {1} /\ unvisited[1] = KeysAt(user, Root)
  BY <1>1
<1>5. Stack
  <2>1. ASSUME NEW k \in KeysAt(user, Root)
        PROVE  \E p \in Paths : Len(p) = 1 /\ p[1] = k /\ Own(p)[p] # "none"
    <3>1. PICK p \in Paths : p = Append(Root, k) /\ userFile[p] # "none"
      BY <1>1, <2>1 DEF KeysAt
    <3>2. Len(p) = 1 /\ p[1] = k
      BY <1>3, <2>1, <3>1, EntryPath DEF KeysAt
    <3>3. Own(p) = userFile
      <4>1. 1 % 2 = 1
        OBVIOUS
      <4> QED
        BY <3>2, <4>1 DEF Own
    <3> QED
      BY <3>1, <3>2, <3>3
  <2>2. ASSUME NEW i \in DOMAIN unvisited
        PROVE  /\ i <= Len(at) => at[i] \notin unvisited[i]
               /\ \A k \in unvisited[i] : \E p \in Paths :
                      /\ Len(p) = i /\ p[i] = k /\ \A j \in 1 .. i - 1 : p[j] = at[j]
                      /\ Own(p)[p] # "none"
    <3>1. i = 1 /\ ~(i <= Len(at)) /\ 1 .. i - 1 = {}
      BY <1>1, <1>3, <1>4
    <3> QED
      BY <1>4, <2>1, <3>1
  <2> QED
    BY <1>1, <1>3, <2>2 DEF Stack
<1>6. Tables
  BY <1>1 DEF Tables, Shared, AreTables
<1>7. ASSUME NEW p \in Paths, Contested(p), Own(p)[p] # "none" PROVE Pending(p)
  <2>1. Len(p) # 0 /\ Len(p) \in Nat
    <3>1. Len(p) = 0 => p = Root
      BY <1>3, SamePath, PathIs DEF Below
    <3> QED
      BY <1>3, <1>7, <3>1, PathIs DEF Contested
  <2>2. PICK r \in Paths : Len(r) = 1 /\ Below(r, p)
    <3>1. 1 \in 0 .. Len(p)
      BY <2>1
    <3> QED
      BY <3>1, PathAbove
  <2>3. Below(Root, r)
    BY <1>3 DEF Below
  <2>4. r[1] \in Names /\ r = Append(Root, r[1])
    <3>1. Len(r) = Len(Root) + 1
      BY <1>3, <2>2
    <3>2. r[Len(r)] \in Names /\ r = Append(Root, r[Len(r)])
      BY <1>3, <2>3, <3>1, EntryOf
    <3> QED
      BY <2>2, <3>2
  <2>5. userFile[r] # "none"
    <3>1. CASE Len(p) = 1
      <4>1. r = p
        BY <2>2, <3>1, SamePath
      <4> QED
        BY <1>7, <3>1, <4>1 DEF Own
    <3>2. CASE Len(p) # 1
      <4>1. Shared(r)
        <5>1. Len(r) < Len(p)
          <6>1. \A n \in Nat : n # 0 /\ n # 1 => 1 < n
            OBVIOUS
          <6> QED
            BY <2>1, <2>2, <3>2, <6>1, Zenon
        <5> QED
          BY <1>7, <2>2, <5>1, ContestedIs
      <4> QED
        BY <4>1 DEF Shared
    <3> QED
      BY <3>1, <3>2
  <2>6. r[1] \in unvisited[1] /\ p[1] = r[1] /\ 1 <= Len(p)
    <3>1. r[1] \in KeysAt(user, Root)
      <4>1. PICK k \in Names : k = r[1]
        BY <2>4
      <4>2. Append(Root, k) = r
        BY <2>4, <4>1
      <4> QED
        BY <1>1, <2>5, <4>1, <4>2 DEF KeysAt
    <3>2. p[1] = r[1]
      BY <2>2 DEF Below
    <3> QED
      BY <1>4, <2>1, <3>1, <3>2
  <2> QED
    BY <1>4, <2>6 DEF Pending, Reaches
<1>8. Contents
  BY <1>1, <1>7 DEF Contents, Own
<1> QED
  BY <1>2, <1>5, <1>6, <1>8 DEF MergeInv

\* A loop ends: nothing was pending on it.
LEMMA CallEndsKeeps ==
    ASSUME MergeInv, CallEnds
    PROVE  MergeInv'
<1> USE DEF MergeInv
<1>1. at \in Paths /\ at \in Seq(Names) /\ Len(at) \in Nat /\ unvisited \in Seq(SUBSET Names)
      /\ unvisited # <<>> /\ Len(unvisited) = Len(at) + 1
  BY PathIs DEF CallEnds, MergeTypes
<1>2. PICK n \in Nat : n = Len(at)
  BY <1>1
<1>3. UNCHANGED <<userFile, defaultFile, user, config>> /\ unvisited[n + 1] = {}
  BY <1>1, <1>2 DEF CallEnds, Last
<1>4. /\ unvisited' \in Seq(SUBSET Names) /\ Len(unvisited') = n /\ DOMAIN unvisited' = 1 .. n
      /\ \A i \in 1 .. n : unvisited'[i] = unvisited[i]
  BY <1>1, <1>2 DEF CallEnds, Front
<1>5. at' \in Paths /\ (n # 0 => Len(at') = n - 1) /\ \A j \in 1 .. n - 1 : at'[j] = at[j]
  <2>1. CASE at = Root
    BY <1>1, <1>2, <2>1 DEF CallEnds, Root
  <2>2. CASE at # Root
    <3>1. at' = SubSeq(at, 1, n - 1) /\ n # 0 /\ n - 1 \in 0 .. Len(at)
      BY <1>1, <1>2, <2>2 DEF CallEnds, Front, Root
    <3>2. at' \in Paths
      BY <1>1, <3>1, PathsAssumption
    <3> QED
      BY <1>1, <1>2, <3>1, <3>2
  <2> QED
    BY <2>1, <2>2
<1>6. MergeTypes'
  <2>1. unvisited' # <<>> => n # 0
    BY <1>4
  <2>2. unvisited' # <<>> => Len(unvisited') = Len(at') + 1
    BY <1>2, <1>4, <1>5, <2>1
  <2> QED
    BY <1>3, <1>4, <1>5, <2>2 DEF MergeTypes
<1>7. Stack'
  <2>1. ASSUME n # 0 PROVE Shared(at)' 
    <3>1. Below(at', at) /\ Shared(at)
      BY <1>1, <1>2, <1>5, <2>1 DEF Below, Stack
    <3>2. Shared(at')
      BY <1>1, <1>5, <3>1, SharedAbove
    <3> QED
      BY <1>3, <3>2 DEF Shared
  <2>2. ASSUME NEW i \in 1 .. n
        PROVE  /\ i <= Len(at') => at'[i] \notin unvisited[i]
               /\ \A k \in unvisited[i] : \E p \in Paths :
                      /\ Len(p) = i /\ p[i] = k /\ \A j \in 1 .. i - 1 : p[j] = at'[j]
                      /\ Own(p)[p] # "none"
    <3>1. i \in DOMAIN unvisited /\ i <= Len(at) /\ at[i] \notin unvisited[i]
      BY <1>1, <1>2 DEF Stack
    <3>2. \A j \in 1 .. i - 1 : at'[j] = at[j]
      BY <1>5
    <3>3. i <= Len(at') => at'[i] = at[i]
      BY <1>2, <1>5
    <3> QED
      BY <3>1, <3>2, <3>3 DEF Stack
  <2>3. \A p : Own(p)' = Own(p)
    BY <1>3 DEF Own
  <2>4. unvisited' # <<>> => n # 0
    BY <1>4
  <2> QED
    BY <1>4, <2>1, <2>2, <2>3, <2>4 DEF Stack
<1>8. ASSUME NEW p \in Paths PROVE Pending(p)' <=> Pending(p)
  <2>1. ASSUME NEW i \in 1 .. n PROVE Reaches(i, p)' <=> Reaches(i, p)
    BY <1>4, <1>5 DEF Reaches
  <2>2. ~Reaches(n + 1, p)
    BY <1>3 DEF Reaches
  <2>3. \A i \in DOMAIN unvisited : i \in 1 .. n \/ i = n + 1
    BY <1>1, <1>2
  <2>4. \A i \in 1 .. n : i \in DOMAIN unvisited
    BY <1>1, <1>2
  <2> QED
    BY <1>4, <2>1, <2>2, <2>3, <2>4 DEF Pending
<1> QED
  BY <1>3, <1>6, <1>7, <1>8, PendingKept

\* Before a key is visited: where the loops stand, and the entry at the key.
LEMMA AtKey ==
    ASSUME MergeInv, unvisited # <<>>, NEW k \in Last(unvisited)
    PROVE  \E n \in Nat, p \in Paths :
               /\ n = Len(at) /\ p = Append(at, k) /\ k \in Names
               /\ Len(unvisited) = n + 1 /\ DOMAIN unvisited = 1 .. n + 1
               /\ Len(p) = n + 1 /\ p[n + 1] = k /\ \A j \in 1 .. n : p[j] = at[j]
               /\ k \in unvisited[n + 1] /\ Own(p)[p] # "none" /\ Pending(p)
               /\ (Shared(p) \/ Contested(p))
<1>1. at \in Paths /\ Len(at) \in Nat /\ unvisited \in Seq(SUBSET Names) /\ Len(unvisited) = Len(at) + 1
      /\ Shared(at) /\ MergeTypes
  BY PathIs DEF MergeInv, MergeTypes, Stack
<1>2. PICK n \in Nat : n = Len(at)
  BY <1>1
<1>3. PICK p \in Paths : p = Append(at, k)
  BY KeyPath
<1>4. k \in Names /\ Len(p) = n + 1 /\ Below(at, p) /\ Own(p)[p] # "none" /\ Pending(p)
  BY <1>2, <1>3, KeyPath
<1>5. p[n + 1] = k /\ \A j \in 1 .. n : p[j] = at[j]
  BY <1>1, <1>2, <1>3, <1>4, EntryPath
<1>6. k \in unvisited[n + 1]
  BY <1>1, <1>2 DEF Last
<1>7. Shared(p) \/ Contested(p)
  BY <1>1, <1>2, <1>4, SharedOrContested
<1>8. Len(unvisited) = n + 1 /\ DOMAIN unvisited = 1 .. n + 1
  BY <1>1, <1>2
<1> QED
  BY <1>2, <1>3, <1>4, <1>5, <1>6, <1>7, <1>8, Zenon

\* What a loop reads at an entry it has still to merge is what is in its file.
LEMMA ReadsOwn ==
    ASSUME MergeInv, NEW p \in Paths, NEW r \in Paths, Len(p) = Len(r) + 1, Contested(p)
    PROVE  From(r)[p] = Own(p)[p]
<1>1. Len(r) \in Nat /\ (Len(p) % 2 = 1 <=> ~(Len(r) % 2 = 1)) /\ (Len(p) % 2 = 0 <=> Len(r) % 2 = 1)
  <2>1. Len(r) \in Nat
    BY PathIs
  <2>2. \A n \in Nat : ((n + 1) % 2 = 1 <=> ~(n % 2 = 1)) /\ ((n + 1) % 2 = 0 <=> n % 2 = 1)
    OBVIOUS
  <2> QED
    BY <2>1, <2>2
<1>2. Below(p, p)
  BY PathIs DEF Below
<1> QED
  BY <1>1, <1>2, ContentsAre DEF From, IntoUser, Own

\* A call into a table that both files have: all that was pending through its
\* key is pending in the new loop.
LEMMA EnterKeeps ==
    ASSUME MergeInv, NEW k \in Names, Enter(k)
    PROVE  MergeInv'
<1> USE DEF MergeInv
<1>0. unvisited # <<>> /\ k \in Last(unvisited)
  BY DEF Enter
<1>1. PICK n \in Nat, p \in Paths :
          /\ n = Len(at) /\ p = Append(at, k) /\ k \in Names
          /\ Len(unvisited) = n + 1 /\ DOMAIN unvisited = 1 .. n + 1
          /\ Len(p) = n + 1 /\ p[n + 1] = k /\ \A j \in 1 .. n : p[j] = at[j]
          /\ k \in unvisited[n + 1] /\ Own(p)[p] # "none" /\ Pending(p)
          /\ (Shared(p) \/ Contested(p))
  BY <1>0, AtKey
<1> DEFINE fresh == KeysAt(From(p), p)
<1>2. /\ AreTables(p) /\ at' = p /\ unvisited' = Append(Visited(k), KeysAt(From(at'), at'))
      /\ UNCHANGED <<userFile, defaultFile, user, config>>
  BY <1>1 DEF Enter
<1>3. unvisited' = Append(Visited(k), fresh)
  BY <1>2 DEF From, IntoUser, KeysAt
<1>4. Visited(k) \in Seq(SUBSET Names) /\ Len(Visited(k)) = n + 1
      /\ \A i \in 1 .. n + 1 : Visited(k)[i] = IF i = n + 1 THEN unvisited[i] \ {k} ELSE unvisited[i]
  BY <1>0, <1>1, VisitedIs
<1>5. /\ unvisited' \in Seq(SUBSET Names) /\ Len(unvisited') = n + 2 /\ DOMAIN unvisited' = 1 .. n + 2
      /\ \A i \in 1 .. n : unvisited'[i] = unvisited[i]
      /\ unvisited'[n + 1] = unvisited[n + 1] \ {k} /\ unvisited'[n + 2] = fresh
  <2>1. fresh \in SUBSET Names
    BY DEF KeysAt
  <2> HIDE DEF fresh
  <2>2. /\ unvisited' \in Seq(SUBSET Names) /\ Len(unvisited') = n + 2 /\ DOMAIN unvisited' = 1 .. n + 2
        /\ \A i \in 1 .. n + 1 : unvisited'[i] = Visited(k)[i]
        /\ unvisited'[n + 2] = fresh
    BY <1>3, <1>4, <2>1
  <2>3. /\ \A i \in 1 .. n : i \in 1 .. n + 1 /\ i # n + 1
        /\ n + 1 \in 1 .. n + 1
    OBVIOUS
  <2> QED
    BY <1>4, <2>2, <2>3
<1>6. Shared(p)
  <2>1. SUFFICES ASSUME Contested(p) PROVE Shared(p)
    BY <1>1
  <2>2. Below(p, p)
    BY <1>1 DEF Below
  <2>3. user[p] = userFile[p] /\ config[p] = defaultFile[p]
    BY <1>1, <2>1, <2>2, ContentsAre
  <2> QED
    BY <1>2, <2>3 DEF AreTables, Shared
<1>7. MergeTypes'
  <2>1. Len(unvisited') = Len(at') + 1
    BY <1>1, <1>2, <1>5
  <2> QED
    BY <1>2, <1>5, <2>1 DEF MergeTypes
\* An entry of the new loop is one of the file.
<1>8. ASSUME NEW r \in Paths, Len(r) = n + 2, Below(p, r)
      PROVE  Own(r)[r] # "none" <=> From(p)[r] # "none"
  <2>1. Len(r) = Len(p) + 1
    BY <1>1, <1>8
  <2>2. CASE Contested(r)
    BY <2>1, <2>2, ReadsOwn
  <2>3. CASE Shared(r)
    <3>1. AreTables(r)
      BY <2>3 DEF Tables
    <3> QED
      BY <2>3, <3>1 DEF Shared, AreTables, Own, From
  <2> QED
    BY <1>6, <1>8, <2>1, <2>2, <2>3, SharedOrContested
<1>9. Stack'
  <2>1. Shared(at)'
    BY <1>2, <1>6 DEF Shared
  <2>2. ASSUME NEW i \in 1 .. n + 2
        PROVE  /\ i <= n + 1 => p[i] \notin unvisited'[i]
               /\ \A l \in unvisited'[i] : \E r \in Paths :
                      /\ Len(r) = i /\ r[i] = l /\ \A j \in 1 .. i - 1 : r[j] = p[j]
                      /\ Own(r)[r] # "none"
    <3>1. CASE i <= n
      <4>1. i \in DOMAIN unvisited /\ i <= Len(at) /\ unvisited'[i] = unvisited[i] /\ p[i] = at[i]
        BY <1>1, <1>5, <3>1
      <4>2. \A j \in 1 .. i - 1 : p[j] = at[j]
        BY <1>1, <3>1
      <4> QED
        BY <4>1, <4>2 DEF Stack
    <3>2. CASE i = n + 1
      <4>1. i \in DOMAIN unvisited /\ unvisited'[i] = unvisited[i] \ {k} /\ p[i] = k
        BY <1>1, <1>5, <3>2
      <4>2. \A j \in 1 .. i - 1 : p[j] = at[j]
        BY <1>1, <3>2
      <4> QED
        BY <4>1, <4>2 DEF Stack
    <3>3. CASE i = n + 2
      <4>1. ASSUME NEW l \in fresh
            PROVE  \E r \in Paths : /\ Len(r) = n + 2 /\ r[n + 2] = l
                                    /\ \A j \in 1 .. n + 1 : r[j] = p[j]
                                    /\ Own(r)[r] # "none"
        <5>1. PICK r \in Paths : r = Append(p, l) /\ From(p)[r] # "none" /\ l \in Names
          BY <4>1 DEF KeysAt
        <5>2. Len(r) = n + 2 /\ r[n + 2] = l /\ (\A j \in 1 .. n + 1 : r[j] = p[j]) /\ Below(p, r)
          <6>1. n + 1 + 1 = n + 2
            OBVIOUS
          <6> QED
            BY <1>1, <5>1, <6>1, EntryPath
        <5> QED
          BY <1>8, <5>1, <5>2
      <4>2. i - 1 = n + 1 /\ ~(i <= n + 1)
        BY <3>3
      <4> HIDE DEF fresh
      <4> QED
        BY <1>5, <3>3, <4>1, <4>2
    <3>4. i <= n \/ i = n + 1 \/ i = n + 2
      OBVIOUS
    <3> QED
      BY <3>1, <3>2, <3>3, <3>4, Zenon
  <2>4. Len(at') = n + 1 /\ DOMAIN unvisited' = 1 .. n + 2
    BY <1>1, <1>2, <1>5
  <2>5. ASSUME NEW i \in DOMAIN unvisited'
        PROVE  /\ i <= Len(at') => at'[i] \notin unvisited'[i]
               /\ \A l \in unvisited'[i] : \E r \in Paths :
                      /\ Len(r) = i /\ r[i] = l /\ \A j \in 1 .. i - 1 : r[j] = at'[j]
                      /\ Own(r)'[r] # "none"
    <3>1. ASSUME NEW l \in unvisited'[i]
          PROVE  \E r \in Paths : /\ Len(r) = i /\ r[i] = l
                                  /\ \A j \in 1 .. i - 1 : r[j] = at'[j]
                                  /\ Own(r)'[r] # "none"
      <4>1. PICK r \in Paths : /\ Len(r) = i /\ r[i] = l
                               /\ \A j \in 1 .. i - 1 : r[j] = p[j]
                               /\ Own(r)[r] # "none"
        BY <2>2, <2>4, <3>1
      <4>2. Own(r)'[r] # "none"
        BY <1>2, <4>1 DEF Own
      <4> QED
        BY <1>2, <4>1, <4>2
    <3>2. i <= Len(at') => at'[i] \notin unvisited'[i]
      BY <1>2, <2>2, <2>4
    <3> QED
      BY <3>1, <3>2, Zenon
  <2> QED
    BY <2>1, <2>5, Zenon DEF Stack
<1>10. ASSUME NEW q \in Paths, Contested(q), Own(q)[q] # "none" PROVE Pending(q)' <=> Pending(q)
  <2>1. ASSUME NEW i \in 1 .. n PROVE Reaches(i, q)' <=> Reaches(i, q)
    BY <1>1, <1>2, <1>5 DEF Reaches
  <2>2. CASE ~Below(p, q)
    <3>1. ~Reaches(n + 2, q)'
      BY <1>1, <1>2, <2>2 DEF Reaches, Below
    <3>2. Reaches(n + 1, q)' <=> Reaches(n + 1, q)
      <4>1. Reaches(n + 1, q) => q[n + 1] # k
        BY <1>1, <2>2 DEF Reaches, Below
      <4>2. \A j \in 1 .. n : at'[j] = at[j]
        BY <1>1, <1>2
      <4> QED
        BY <1>5, <4>1, <4>2 DEF Reaches
    <3> QED
      BY <1>1, <1>5, <2>1, <3>1, <3>2 DEF Pending
  <2>3. CASE Below(p, q)
    <3>1. Reaches(n + 1, q)
      BY <1>1, <2>3 DEF Reaches, Below
    <3>2. Reaches(n + 2, q)'
      <4>1. n + 2 \in 0 .. Len(q)
        <5>1. Len(q) \in Nat /\ Len(p) <= Len(q)
          BY <2>3, PathIs DEF Below
        <5>2. Len(q) # n + 1
          <6>1. Len(q) = n + 1 => p = q
            BY <1>1, <2>3, SamePath
          <6> QED
            BY <1>6, <1>10, <6>1 DEF Contested
        <5> QED
          BY <1>1, <5>1, <5>2
      <4>2. PICK r \in Paths : Len(r) = n + 2 /\ Below(r, q)
        BY <4>1, PathAbove
      <4>3. Below(p, r)
        <5>1. Len(p) <= Len(r)
          BY <1>1, <4>2
        <5> QED
          BY <2>3, <4>2, <5>1, BelowOrder
      <4>4. Own(r)[r] # "none"
        <5>1. CASE Len(q) = n + 2
          <6>1. r = q
            BY <4>2, <5>1, SamePath
          <6> QED
            BY <1>10, <6>1
        <5>2. CASE Len(q) # n + 2
          <6>1. Len(r) < Len(q)
            BY <4>1, <4>2, <5>2
          <6>2. Shared(r)
            BY <1>10, <4>2, <6>1, ContestedIs
          <6> QED
            BY <6>2 DEF Shared, Own
        <5> QED
          BY <5>1, <5>2
      <4>5. From(p)[r] # "none"
        BY <1>8, <4>2, <4>3, <4>4
      <4>6. r[n + 2] \in fresh
        <5>1. r[n + 2] \in Names /\ r = Append(p, r[n + 2])
          <6>1. Len(r) = Len(p) + 1
            BY <1>1, <4>2
          <6> QED
            BY <4>2, <4>3, <6>1, EntryOf
        <5> QED
          BY <4>5, <5>1 DEF KeysAt
      <4>7. q[n + 2] = r[n + 2] /\ \A j \in 1 .. n + 1 : q[j] = p[j]
        BY <1>1, <2>3, <4>2 DEF Below
      <4> QED
        BY <1>2, <1>5, <4>1, <4>6, <4>7 DEF Reaches
    <3> QED
      BY <1>1, <1>5, <3>1, <3>2 DEF Pending
  <2> QED
    BY <2>2, <2>3
<1> QED
  BY <1>2, <1>7, <1>9, <1>10, PendingKept

\* An entry is replaced: it was contested, its own file's contents go into the
\* other one, and no contested entry but this one is touched.
LEMMA AssignKeeps ==
    ASSUME MergeInv, NEW k \in Names, Assign(k)
    PROVE  MergeInv'
<1> USE DEF MergeInv
<1>0. unvisited # <<>> /\ k \in Last(unvisited)
  BY DEF Assign
<1>1. PICK n \in Nat, p \in Paths :
          /\ n = Len(at) /\ p = Append(at, k) /\ k \in Names
          /\ Len(unvisited) = n + 1 /\ DOMAIN unvisited = 1 .. n + 1
          /\ Len(p) = n + 1 /\ p[n + 1] = k /\ \A j \in 1 .. n : p[j] = at[j]
          /\ k \in unvisited[n + 1] /\ Own(p)[p] # "none" /\ Pending(p)
          /\ (Shared(p) \/ Contested(p))
  BY <1>0, AtKey
<1>2. /\ ~AreTables(p) /\ unvisited' = Visited(k)
      /\ UNCHANGED <<userFile, defaultFile, at>>
  BY <1>1 DEF Assign
<1>3. Contested(p)
  BY <1>1, <1>2 DEF Tables
<1>4. /\ unvisited' \in Seq(SUBSET Names) /\ Len(unvisited') = n + 1 /\ DOMAIN unvisited' = 1 .. n + 1
      /\ \A i \in 1 .. n : unvisited'[i] = unvisited[i]
      /\ unvisited'[n + 1] = unvisited[n + 1] \ {k}
  <2>1. /\ Visited(k) \in Seq(SUBSET Names) /\ Len(Visited(k)) = n + 1
        /\ \A i \in 1 .. n + 1 : Visited(k)[i] = IF i = n + 1 THEN unvisited[i] \ {k} ELSE unvisited[i]
    BY <1>0, <1>1, VisitedIs
  <2>2. /\ \A i \in 1 .. n : i \in 1 .. n + 1 /\ i # n + 1
        /\ n + 1 \in 1 .. n + 1
    OBVIOUS
  <2> QED
    BY <1>2, <2>1, <2>2
\* Which of the two trees the call at `at' merges into.
<1>5. /\ Len(p) % 2 = 1 \/ Len(p) % 2 = 0
      /\ Len(p) % 2 = 1 => user' = user /\ config' = WithEntry(config, user, p)
      /\ Len(p) % 2 = 0 => config' = config /\ user' = WithEntry(user, config, p)
  <2>1. \A m \in Nat : /\ (m + 1) % 2 = 1 => m % 2 # 1
                       /\ (m + 1) % 2 = 0 => m % 2 = 1
                       /\ (m + 1) % 2 = 1 \/ (m + 1) % 2 = 0
    OBVIOUS
  <2>2. IF IntoUser(at)
        THEN user' = WithEntry(user, config, p) /\ UNCHANGED config
        ELSE config' = WithEntry(config, user, p) /\ UNCHANGED user
    BY <1>1 DEF Assign
  <2> QED
    BY <1>1, <2>1, <2>2 DEF IntoUser
<1>6. ASSUME NEW q \in Paths
      PROVE  /\ Len(p) % 2 = 1 =>
                    user'[q] = user[q] /\ config'[q] = IF Below(p, q) THEN user[q] ELSE config[q]
             /\ Len(p) % 2 = 0 =>
                    config'[q] = config[q] /\ user'[q] = IF Below(p, q) THEN config[q] ELSE user[q]
  BY <1>5, PrefixIs DEF WithEntry
<1>7. MergeTypes'
  <2>1. user' = [q \in Paths |-> user'[q]] /\ config' = [q \in Paths |-> config'[q]]
    BY <1>5 DEF WithEntry, MergeTypes
  <2> QED
    BY <1>1, <1>2, <1>4, <2>1 DEF MergeTypes
<1>8. Stack'
  <2>1. Shared(at)'
    BY <1>0, <1>2 DEF Shared, Stack
  <2>2. ASSUME NEW i \in DOMAIN unvisited'
        PROVE  /\ i <= Len(at') => at'[i] \notin unvisited'[i]
               /\ \A l \in unvisited'[i] : \E r \in Paths :
                      /\ Len(r) = i /\ r[i] = l /\ \A j \in 1 .. i - 1 : r[j] = at'[j]
                      /\ Own(r)'[r] # "none"
    <3>1. i \in DOMAIN unvisited /\ unvisited'[i] \subseteq unvisited[i]
      BY <1>1, <1>4
    <3> QED
      BY <1>2, <3>1 DEF Stack, Own
  <2> QED
    BY <2>1, <2>2, Zenon DEF Stack
<1>9. ~Pending(p)'
  <2>1. ASSUME NEW i \in 1 .. n PROVE ~Reaches(i, p)'
    <3>1. i \in DOMAIN unvisited /\ i <= Len(at) /\ p[i] = at[i] /\ unvisited'[i] = unvisited[i]
      BY <1>1, <1>4
    <3> QED
      BY <3>1 DEF Reaches, Stack
  <2>2. ~Reaches(n + 1, p)'
    BY <1>1, <1>4 DEF Reaches
  <2>3. \A i \in 1 .. n + 1 : i \in 1 .. n \/ i = n + 1
    OBVIOUS
  <2> QED
    BY <1>4, <2>1, <2>2, <2>3 DEF Pending
<1>10. ASSUME NEW q \in Paths, Contested(q), q # p PROVE Pending(q)' <=> Pending(q)
  <2>1. ASSUME NEW i \in 1 .. n PROVE Reaches(i, q)' <=> Reaches(i, q)
    BY <1>2, <1>4 DEF Reaches
  <2>2. Reaches(n + 1, q)' <=> Reaches(n + 1, q)
    <3>1. ASSUME Reaches(n + 1, q) PROVE q[n + 1] # k
      <4>1. SUFFICES ASSUME q[n + 1] = k PROVE FALSE
        OBVIOUS
      <4>2. Below(p, q) /\ Below(q, q)
        BY <1>1, <3>1, <4>1, PathIs DEF Reaches, Below
      <4> QED
        BY <1>3, <1>10, <4>2, ContestedApart
    <3> QED
      BY <1>2, <1>4, <3>1 DEF Reaches
  <2>3. \A i \in 1 .. n + 1 : i \in 1 .. n \/ i = n + 1
    OBVIOUS
  <2>4. \A i \in 1 .. n : i \in 1 .. n + 1
    OBVIOUS
  <2>5. n + 1 \in 1 .. n + 1
    OBVIOUS
  <2> QED
    BY <1>1, <1>4, <2>1, <2>2, <2>3, <2>4, <2>5 DEF Pending
<1>11. Tables'
  <2>1. ASSUME NEW q \in Paths, Shared(q) PROVE user'[q] = "table" /\ config'[q] = "table"
    <3>1. ~Below(p, q)
      BY <1>3, <2>1, SharedAbove DEF Contested
    <3>2. user[q] = "table" /\ config[q] = "table"
      BY <2>1 DEF Tables, AreTables
    <3> QED
      BY <1>5, <1>6, <3>1, <3>2
  <2> QED
    BY <1>2, <2>1 DEF Tables, Shared, AreTables
<1>12. ASSUME NEW r \in Paths, NEW q \in Paths, Contested(r), IsPrefix(r, q)
       PROVE  /\ config'[q] = IF Len(r) % 2 = 1 /\ userFile[r] # "none" /\ ~Pending(r)'
                              THEN userFile[q] ELSE defaultFile[q]
              /\ user'[q] = IF Len(r) % 2 = 0 /\ defaultFile[r] # "none" /\ ~Pending(r)'
                            THEN defaultFile[q] ELSE userFile[q]
  <2>1. Below(r, q)
    BY <1>12, PrefixIs
  <2>2. CASE r = p
    <3>1. user[q] = IF Len(p) % 2 = 1 THEN userFile[q] ELSE user[q]
      BY <1>3, <2>1, <2>2, ContentsAre
    <3>2. config[q] = IF Len(p) % 2 = 0 THEN defaultFile[q] ELSE config[q]
      BY <1>3, <2>1, <2>2, ContentsAre
    <3>3. CASE Len(p) % 2 = 1
      BY <1>1, <1>6, <1>9, <2>1, <2>2, <3>1, <3>3 DEF Own
    <3>4. CASE Len(p) % 2 = 0
      BY <1>1, <1>6, <1>9, <2>1, <2>2, <3>2, <3>4 DEF Own
    <3> QED
      BY <1>5, <3>3, <3>4
  <2>3. CASE r # p
    <3>1. ~Below(p, q)
      BY <1>3, <1>12, <2>1, <2>3, ContestedApart
    <3>2. user'[q] = user[q] /\ config'[q] = config[q]
      BY <1>5, <1>6, <3>1
    <3>3. Pending(r)' <=> Pending(r)
      BY <1>10, <1>12, <2>3
    <3> QED
      BY <1>12, <2>1, <3>2, <3>3, ContentsAre
  <2> QED
    BY <2>2, <2>3
<1>13. Contents'
  <2>1. \A r : Contested(r)' <=> Contested(r)
    BY <1>2 DEF Contested, Shared
  <2> QED
    BY <1>2, <1>12, <2>1 DEF Contents
<1> QED
  BY <1>7, <1>8, <1>11, <1>13

LEMMA MergeKeeps == MergeInv /\ [MergeNext]_mergeVars => MergeInv'
<1> SUFFICES ASSUME MergeInv, [MergeNext]_mergeVars PROVE MergeInv'
  OBVIOUS
<1>1. CASE CallEnds
  BY <1>1, CallEndsKeeps
<1>2. CASE \E k \in Names : Enter(k) \/ Assign(k)
  BY <1>2, EnterKeeps, AssignKeeps
<1>3. CASE UNCHANGED mergeVars
  <2>1. UNCHANGED <<userFile, defaultFile, user, config, at, unvisited>>
    BY <1>3 DEF mergeVars
  <2>2. MergeTypes' /\ Stack'
    BY <2>1 DEF MergeInv, MergeTypes, Stack, Shared, Own
  <2>3. \A p : Pending(p)' <=> Pending(p)
    BY <2>1 DEF Pending, Reaches
  <2> QED
    BY <2>1, <2>2, <2>3, PendingKept DEF MergeInv
<1> QED
  BY <1>1, <1>2, <1>3 DEF MergeNext

\* Whatever the two files hold and in whichever order the keys are visited:
\* once mergeConfig has returned, an entry of a table that both files have is
\* the user's at an odd depth, if he has one, and the default's at an even one.
THEOREM OddDepthIsTheUsersHolds == MergeSpec => []OddDepthIsTheUsers
<1>1. ASSUME MergeInv PROVE OddDepthIsTheUsers
  <2>1. SUFFICES ASSUME Merged, NEW p \in Paths, NEW q \in Paths,
                        Contested(p), IsPrefix(p, q)
                 PROVE  config[q] = Winner(p)[q]
    BY DEF OddDepthIsTheUsers
  <2>2. ~Pending(p)
    BY <2>1 DEF Merged, Pending
  <2> QED
    BY <1>1, <2>1, <2>2 DEF MergeInv, Contents, Winner
<1> QED
  BY MergeStarts, MergeKeeps, <1>1, PTL DEF MergeSpec

=============================================================================
