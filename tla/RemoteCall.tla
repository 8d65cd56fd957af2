----------------------------- MODULE RemoteCall -----------------------------
(***************************************************************************)
(* What a caller of the public relay may rely on.  A call that is refused  *)
(* is never carried out.  A call that is done was carried out, once.  Of a *)
(* call that is lost the caller knows nothing: it may have been carried    *)
(* out, or be carried out later, once.                                     *)
(***************************************************************************)

CONSTANT Callers

VARIABLES
    answer,  \* what each caller was answered, "none" while it waits
    ran      \* how often a device has begun to carry out each

remoteVars == <<answer, ran>>

Answers == {"none", "refused", "lost", "done"}

RemoteInit == answer = [c \in Callers |-> "none"] /\ ran = [c \in Callers |-> 0]

Run(c) ==
    /\ ran[c] = 0
    /\ answer[c] # "refused"
    /\ ran' = [ran EXCEPT ![c] = 1]
    /\ UNCHANGED answer

Answer(c, told) ==
    /\ answer[c] = "none"
    /\ told = "refused" => ran[c] = 0
    /\ told = "done" => ran[c] = 1
    /\ answer' = [answer EXCEPT ![c] = told]
    /\ UNCHANGED ran

(* A session that ends is the end of all the calls that wait on it.        *)
Lose ==
    /\ \E lost \in SUBSET {c \in Callers : answer[c] = "none"} :
         answer' = [c \in Callers |-> IF c \in lost THEN "lost" ELSE answer[c]]
    /\ UNCHANGED ran

RemoteNext ==
    \/ \E c \in Callers : Run(c)
    \/ \E c \in Callers, told \in {"refused", "lost", "done"} : Answer(c, told)
    \/ Lose

RemoteSpec == RemoteInit /\ [][RemoteNext]_remoteVars

=============================================================================
