--------------------------- MODULE LayeredThreads ---------------------------
(***************************************************************************)
(* What Robot::run promises about its threads, seen from outside: the      *)
(* controllers are a layer above the ios.  A controller thread runs only   *)
(* on top of all the io threads; an io thread ends only when no controller *)
(* thread runs; no thread runs twice.                                      *)
(***************************************************************************)
CONSTANTS Ios, Ctrls

VARIABLES active,   \* threads that run
          ended     \* threads that have run and returned

layerVars == <<active, ended>>

LayerInit == active = {} /\ ended = {}

BeginIo(i) ==
    /\ i \notin active \cup ended
    /\ Ctrls \cap active = {}
    /\ active' = active \cup {i}
    /\ UNCHANGED ended

BeginCtrl(c) ==
    /\ c \notin active \cup ended
    /\ Ios \subseteq active
    /\ active' = active \cup {c}
    /\ UNCHANGED ended

End(w) ==
    /\ w \in active
    /\ active' = active \ {w}
    /\ ended' = ended \cup {w}

EndIo(i) == Ctrls \subseteq ended /\ End(i)

LayerNext ==
    \/ \E i \in Ios : BeginIo(i) \/ EndIo(i)
    \/ \E c \in Ctrls : BeginCtrl(c) \/ End(c)

LayerSpec == LayerInit /\ [][LayerNext]_layerVars

=============================================================================
