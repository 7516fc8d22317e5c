------------------------------- MODULE SdkState -------------------------------
(***************************************************************************)
(* The state that a bot keeps with the SDK for Node.js (sdk/nodejs/src/    *)
(* state.ts): one file per key in a directory of its container.  A         *)
(* realtime bot shares it with the query server that is started next to    *)
(* it; a query to a scheduled bot runs in a container of its own, with a   *)
(* copy of the directory and QUERY_PATH set.  Module StateSync has how the *)
(* directory comes and goes.                                               *)
(***************************************************************************)
EXTENDS Naturals

CONSTANTS
  StateKey,
  StateValue,
  Process      \* the processes of a container that use the SDK

Gone == "gone"     \* no such file
Torn == "torn"     \* a file that is not JSON: empty, or of two writes
KeyFile == StateValue \cup {Gone, Torn}

VARIABLES
  queryMode,    \* QUERY_PATH is set
  stateFile,
  writing,      \* what each process is in the middle of: a set, a clear or nothing
  lastWritten,  \* history: what the calls that returned have left of each key
  muddledKeys   \* history: keys that two calls met at, or of which a write was cut short

sdkVars == <<queryMode, stateFile, writing, lastWritten, muddledKeys>>

NoWrite == [op |-> "none", keys |-> {}]

\* Every variable has its type.
SdkTypeOK ==
  /\ queryMode \in BOOLEAN /\ stateFile \in [StateKey -> KeyFile]
  /\ lastWritten \in [StateKey -> StateValue \cup {Gone}] /\ muddledKeys \subseteq StateKey
  /\ \A p \in Process :
       writing[p] \in {NoWrite} \cup [op : {"clear"}, keys : SUBSET StateKey]
                      \cup [op : {"set"}, keys : SUBSET StateKey, value : StateValue]

\* What was restored is what calls had left.
SdkInit ==
  /\ queryMode \in BOOLEAN
  /\ stateFile \in [StateKey -> StateValue \cup {Gone}] /\ lastWritten = stateFile
  /\ writing = [p \in Process |-> NoWrite] /\ muddledKeys = {}

\* Keys that a process other than p is writing or clearing.
Elsewhere(p) == UNION {writing[o].keys : o \in Process \ {p}}

\* Mutation: a query may write.
checkWriteAllowed_Always == TRUE

checkWriteAllowed == ~queryMode

\* History: a call of p that is over has left v of k; k is what it should be unless
\* another process is at it.
Left(p, k, v) ==
  /\ lastWritten' = [lastWritten EXCEPT ![k] = v]
  /\ muddledKeys' = IF k \in Elsewhere(p) THEN muddledKeys \cup {k} ELSE muddledKeys \ {k}

\* The file is opened, and truncated, ...
setKey(p, k, v) ==
  /\ writing[p] = NoWrite /\ checkWriteAllowed
  /\ writing' = [writing EXCEPT ![p] = [op |-> "set", keys |-> {k}, value |-> v]]
  /\ stateFile' = [stateFile EXCEPT ![k] = Torn]
  /\ muddledKeys' = IF k \in Elsewhere(p) THEN muddledKeys \cup {k} ELSE muddledKeys
  /\ UNCHANGED <<queryMode, lastWritten>>

\* ... and written: over what another process may have written since, or to a file that
\* it has removed.
SetEnds(p) ==
  /\ writing[p].op = "set"
  /\ \E k \in writing[p].keys, v \in KeyFile :
       /\ \/ v = writing[p].value
          \/ v = Torn /\ stateFile[k] \in StateValue
          \/ v = Gone /\ stateFile[k] = Gone
       /\ (stateFile[k] = Gone => v = Gone)
       /\ stateFile' = [stateFile EXCEPT ![k] = v]
       /\ lastWritten' = [lastWritten EXCEPT ![k] = writing[p].value]
       /\ muddledKeys' = IF k \in Elsewhere(p) \/ v # writing[p].value \/ stateFile[k] # Torn
                         THEN muddledKeys \cup {k} ELSE muddledKeys \ {k}
  /\ writing' = [writing EXCEPT ![p] = NoWrite]
  /\ UNCHANGED queryMode

\* Whether the file was there or not.
removeKey(p, k) ==
  /\ writing[p] = NoWrite /\ checkWriteAllowed
  /\ stateFile' = [stateFile EXCEPT ![k] = Gone] /\ Left(p, k, Gone)
  /\ UNCHANGED <<queryMode, writing>>

listKeys == {k \in StateKey : stateFile[k] # Gone}

\* The directory is read, and its files removed one by one.
clearKeys(p) ==
  /\ writing[p] = NoWrite /\ checkWriteAllowed
  /\ writing' = [writing EXCEPT ![p] = [op |-> "clear", keys |-> listKeys]]
  /\ muddledKeys' = muddledKeys \cup (listKeys \cap Elsewhere(p))
  /\ UNCHANGED <<queryMode, stateFile, lastWritten>>

ClearOne(p, k) ==
  /\ writing[p].op = "clear" /\ k \in writing[p].keys /\ stateFile[k] # Gone
  /\ stateFile' = [stateFile EXCEPT ![k] = Gone] /\ Left(p, k, Gone)
  /\ writing' = [writing EXCEPT ![p].keys = @ \ {k}]
  /\ UNCHANGED queryMode

\* All are removed; or one was gone already, at which the call returns, with the rest kept.
ClearEnds(p) ==
  /\ writing[p].op = "clear"
  /\ writing[p].keys = {} \/ \E k \in writing[p].keys : stateFile[k] = Gone
  /\ muddledKeys' = muddledKeys \cup writing[p].keys
  /\ writing' = [writing EXCEPT ![p] = NoWrite]
  /\ UNCHANGED <<queryMode, stateFile, lastWritten>>

\* The container is killed, and its processes are started anew.
Killed ==
  /\ muddledKeys' = muddledKeys \cup UNION {writing[p].keys : p \in Process}
  /\ writing' = [p \in Process |-> NoWrite]
  /\ UNCHANGED <<queryMode, stateFile, lastWritten>>

SdkNext ==
  \/ \E p \in Process :
       \/ \E k \in StateKey : removeKey(p, k) \/ ClearOne(p, k)
       \/ \E k \in StateKey, v \in StateValue : setKey(p, k, v)
       \/ SetEnds(p) \/ clearKeys(p) \/ ClearEnds(p)
  \/ Killed

SdkSpec == SdkInit /\ [][SdkNext]_sdkVars

-----------------------------------------------------------------------------
(* Properties *)

\* What is read: the default stands in for a file that is not JSON, too.
getKey(k, default) == IF stateFile[k] \in StateValue THEN stateFile[k] ELSE default
existsKey(k) == stateFile[k] # Gone

\* A key that no call is at reads as the last call left it, and is listed just when that
\* set it, but where two processes met or a write was cut short; and what a query in its
\* own container finds stays as it was restored.
StateIsAsLeft ==
  /\ \A k \in StateKey \ muddledKeys :
       (\A p \in Process : k \notin writing[p].keys) =>
         /\ getKey(k, Gone) = lastWritten[k]
         /\ existsKey(k) = (lastWritten[k] # Gone)
  /\ queryMode => \A k \in StateKey : stateFile[k] = lastWritten[k] /\ k \notin muddledKeys
=============================================================================
