---------------------------- MODULE KeyRotation ----------------------------
(***************************************************************************)
(* The rotation of Gemini speech through the keys of its pool: what        *)
(* _next_pool_key of app/services/tts/gemini_provider.py and the sort key  *)
(* of get_next_available_key promise together, over KeyPool.               *)
(***************************************************************************)
EXTENDS KeyPool

\* <<k, j>> \in waiting[p] says that since process p last took k, the key j has
\* been eligible all the time and has not been taken by p (a history variable).
VARIABLE waiting

rotationVars == <<vars, waiting>>

Eligible == Offered \ Broken

\* In this step the speech caller c takes k.
Takes(c, k) ==
    pc[c] = "choosing" /\ pc'[c] = "selected" /\ key'[c] = k /\ k # 0

TakenBy(p) == {k \in Key : \E c \in Speech : Home[c] = p /\ Takes(c, k)}

RotationInit == Init /\ waiting = [p \in Process |-> {}]

RotationNext ==
    /\ Next
    /\ waiting' = [p \in Process |-> LET T == TakenBy(p) IN
          {w \in waiting[p] : w[1] \notin T /\ w[2] \in Eligible' \ T}
            \cup (T \X (Eligible' \ T))]

RotationSpec == RotationInit /\ [][RotationNext]_rotationVars

\* Speech cycles through the eligible keys: a process does not take a key again
\* while another key, eligible ever since it last took it, has not had its turn,
\* although its callers select concurrently and the pool changes meanwhile.
RoundRobin ==
    [][\A c \in Speech, k \in Key : Takes(c, k) =>
          \A j \in Key : <<k, j>> \notin waiting[Home[c]]]_rotationVars

=============================================================================
