---------------------------- MODULE MergeConfig ----------------------------
(***************************************************************************)
(* mergeConfig (src/util/util.cc), which robotCreate calls with the user's *)
(* configuration and the default one of the robot.  A toml table with all  *)
(* that is nested in it says what stands at the end of each path of keys:  *)
(* nothing, a table, or a value, of which only the file it comes from      *)
(* matters.  The recursion is a stack of tables on the way from the root.  *)
(***************************************************************************)
EXTENDS Naturals, SequencesExt

CONSTANTS Names,  \* keys
          Paths   \* bound: the paths of keys at which a file may have an entry

ASSUME PathsAssumption ==
    /\ Paths \subseteq Seq(Names) /\ <<>> \in Paths
    /\ \A p \in Paths : \A n \in 0 .. Len(p) : SubSeq(p, 1, n) \in Paths

Root == <<>>

\* What a file can hold: entries stand in tables.
Trees(origin) ==
    {t \in [Paths -> {"none", "table", origin}] :
        /\ t[Root] = "table"
        /\ \A p, q \in Paths : IsStrictPrefix(p, q) /\ t[q] # "none" => t[p] = "table"}

VARIABLES userFile, defaultFile,  \* what was parsed
          user, config,           \* user_config and config
          at,                     \* the table the innermost call merges
          unvisited               \* keys the loops have still to visit, outermost call first

mergeVars == <<userFile, defaultFile, user, config, at, unvisited>>

KeysAt(t, p) == {k \in Names : Append(p, k) \in Paths /\ t[Append(p, k)] # "none"}

\* mergeConfig(user_config, config) has been called.
MergeInit ==
    /\ userFile \in Trees("user") /\ user = userFile
    /\ defaultFile \in Trees("default") /\ config = defaultFile
    /\ at = Root /\ unvisited = <<KeysAt(user, Root)>>

-----------------------------------------------------------------------------
\* The call at a path merges into the configuration or, one level down, where
\* its arguments are swapped, into the user's.
IntoUser(p) == Len(p) % 2 = 1

From(p) == IF IntoUser(p) THEN config ELSE user

AreTables(p) == user[p] = "table" /\ config[p] = "table"

\* The entry is taken off the innermost loop.
Visited(k) == [unvisited EXCEPT ![Len(unvisited)] = @ \ {k}]

\* Both entries are tables: mergeConfig(*default_table, *user_table).
Enter(k) ==
    /\ unvisited # <<>> /\ k \in Last(unvisited)
    /\ AreTables(Append(at, k))
    /\ at' = Append(at, k)
    /\ unvisited' = Append(Visited(k), KeysAt(From(at'), at'))
    /\ UNCHANGED <<userFile, defaultFile, user, config>>

\* The tree `to' with all that stands at and below p replaced.
WithEntry(to, from, p) == [q \in Paths |-> IF IsPrefix(p, q) THEN from[q] ELSE to[q]]

\* Variant of Assign that keeps an entry that is there already.
AssignNew(k) ==
    /\ unvisited # <<>> /\ k \in Last(unvisited)
    /\ ~AreTables(Append(at, k))
    /\ LET p == Append(at, k)
       IN  IF IntoUser(at)
           THEN UNCHANGED config
                /\ user' = IF user[p] = "none" THEN WithEntry(user, config, p) ELSE user
           ELSE UNCHANGED user
                /\ config' = IF config[p] = "none" THEN WithEntry(config, user, p) ELSE config
    /\ unvisited' = Visited(k)
    /\ UNCHANGED <<userFile, defaultFile, at>>

\* insert_or_assign
Assign(k) ==
    /\ unvisited # <<>> /\ k \in Last(unvisited)
    /\ ~AreTables(Append(at, k))
    /\ IF IntoUser(at)
       THEN user' = WithEntry(user, config, Append(at, k)) /\ UNCHANGED config
       ELSE config' = WithEntry(config, user, Append(at, k)) /\ UNCHANGED user
    /\ unvisited' = Visited(k)
    /\ UNCHANGED <<userFile, defaultFile, at>>

\* The loop of the innermost call ends.
CallEnds ==
    /\ unvisited # <<>> /\ Last(unvisited) = {}
    /\ unvisited' = Front(unvisited)
    /\ at' = IF at = Root THEN at ELSE Front(at)
    /\ UNCHANGED <<userFile, defaultFile, user, config>>

MergeNext == CallEnds \/ \E k \in Names : Enter(k) \/ Assign(k)

MergeSpec == MergeInit /\ [][MergeNext]_mergeVars

-----------------------------------------------------------------------------
Merged == unvisited = <<>>

\* Both files have a table at p.
Shared(p) == userFile[p] = "table" /\ defaultFile[p] = "table"

\* Both files have a table around the entry, and not both have one in it.
Contested(p) == ~Shared(p) /\ \A q \in Paths : IsStrictPrefix(q, p) => Shared(q)

\* Whose entry, with all that is below it, the robot gets.
Winner(p) == IF Len(p) % 2 = 1 /\ userFile[p] # "none" THEN userFile ELSE defaultFile

\* What the merge does at each depth: at the top level and inside two tables
\* an entry of the user replaces the default and new ones are added; inside
\* one table the default stays and what the user says is lost.
OddDepthIsTheUsers ==
    Merged => \A p, q \in Paths : Contested(p) /\ IsPrefix(p, q) => config[q] = Winner(p)[q]

\* "create a robot based on your configuration file": where both files give a
\* value the user's is the robot's, wherever it stands.
UserOverrides ==
    Merged => \A p \in Paths :
        userFile[p] = "user" /\ defaultFile[p] = "default" => config[p] = "user"

=============================================================================
