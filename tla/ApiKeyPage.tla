------------------------------- MODULE ApiKeyPage -------------------------------
(***************************************************************************)
(* The API keys in the settings of the web frontend (ApiKeySection with    *)
(* its dialogs), and the requests they send through the frontend's routes  *)
(* to the API's ApiKeyController.  Keys are numbered as they are created.  *)
(***************************************************************************)
EXTENDS Integers, FiniteSets

CONSTANTS
  MaxKey,   \* bound: keys that are created
  MaxAsk,   \* bound: requests under way at once
  MaxLost   \* bound: requests whose answer is lost or an error

ASSUME KeyPageConstants == {MaxKey, MaxAsk, MaxLost} \subseteq Nat

ApiKeys == 1..MaxKey
NoKey == 0

\* `named': the key that the request is about, or that it created.
KeyAsk == [op : {"create", "delete"}, named : 0..MaxKey, done : BOOLEAN]
\* fetchApiKeys reads the keys and the statistics in parallel; `overlaps' is history.
KeyFetch == [op : {"fetch"}, caller : {"page", "create", "delete"}, overlaps : BOOLEAN,
          keysRead : BOOLEAN, keys : SUBSET ApiKeys, statsRead : BOOLEAN, stats : 0..MaxKey]
NoRequest == [op |-> "none"]

VARIABLES
  issuedKeys, keyCounter,               \* the API's keys, and how many there have been
  apiKeys, keyStats, keysLoading,       \* ApiKeySection
  createDialogOpen, deleteDialogOpen, detailsDialogOpen, selectedApiKey, newApiKey,
  creating, hasBeenCopied, revoking,    \* the dialogs' own state
  keyAsks, lost,
  givenKeys, seenKeys,    \* history: keys that the page has received; that it has displayed
  outdated                \* history: the list shown may be older than an answer

keyServerVars == <<issuedKeys, keyCounter>>
sectionVars == <<apiKeys, keyStats, keysLoading>>
dialogVars == <<createDialogOpen, deleteDialogOpen, detailsDialogOpen, selectedApiKey,
                newApiKey, creating, hasBeenCopied, revoking>>
keyHistory == <<givenKeys, outdated>>
keyPageVars == <<keyServerVars, sectionVars, dialogVars, keyAsks, lost, keyHistory, seenKeys>>

\* Every variable has its type.
KeyPageTypeOK ==
  /\ {issuedKeys, apiKeys, givenKeys, seenKeys} \subseteq SUBSET ApiKeys
  /\ {keyCounter, keyStats, selectedApiKey, newApiKey} \subseteq 0..MaxKey
  /\ {keysLoading, createDialogOpen, deleteDialogOpen, detailsDialogOpen, creating,
      hasBeenCopied, revoking, outdated} \subseteq BOOLEAN
  /\ keyAsks \in [1..MaxAsk -> KeyAsk \cup KeyFetch \cup {NoRequest}] /\ lost \in 0..MaxLost

-----------------------------------------------------------------------------
(* The API *)

createApiKey == keyCounter' = keyCounter + 1 /\ issuedKeys' = issuedKeys \cup {keyCounter + 1}

getApiKeys == issuedKeys

\* Every key is active until it is deleted.
getApiKeyStats == Cardinality(issuedKeys)

\* Only a key that there is.
deleteApiKey(k) == k \in issuedKeys /\ issuedKeys' = issuedKeys \ {k} /\ UNCHANGED keyCounter

-----------------------------------------------------------------------------
(* Requests *)

AskRoom == \E i \in 1..MaxAsk : keyAsks[i] = NoRequest
IsFetch(r) == r.op = "fetch"

AddAsk(as, r) == [as EXCEPT ![CHOOSE i \in 1..MaxAsk : as[i] = NoRequest] = r]

\* History: fetches under way may bring what is older than something else.
Overlapped(as) ==
  [i \in 1..MaxAsk |-> IF IsFetch(as[i]) THEN [as[i] EXCEPT !.overlaps = TRUE] ELSE as[i]]

\* fetchApiKeys starts, maybe while another is under way.
fetchApiKeys(as, from) ==
  LET other == \E i \in 1..MaxAsk : IsFetch(as[i])
  IN AddAsk(Overlapped(as), [op |-> "fetch", caller |-> from, overlaps |-> other,
                             keysRead |-> FALSE, keys |-> {}, statsRead |-> FALSE, stats |-> 0])

\* The success screen of the dialog shows the key.
Display == seenKeys' = IF createDialogOpen' /\ newApiKey' # NoKey
                       THEN seenKeys \cup {newApiKey'} ELSE seenKeys

KeyPageInit ==
  /\ issuedKeys = {} /\ keyCounter = 0
  /\ apiKeys = {} /\ keyStats = 0 /\ keysLoading = TRUE
  /\ createDialogOpen = FALSE /\ deleteDialogOpen = FALSE /\ detailsDialogOpen = FALSE
  /\ selectedApiKey = NoKey /\ newApiKey = NoKey
  /\ creating = FALSE /\ hasBeenCopied = FALSE /\ revoking = FALSE
  /\ keyAsks = fetchApiKeys([i \in 1..MaxAsk |-> NoRequest], "page") /\ lost = 0
  /\ givenKeys = {} /\ seenKeys = {} /\ outdated = FALSE

-----------------------------------------------------------------------------
(* The user *)

Modal == createDialogOpen \/ (selectedApiKey # NoKey /\ (deleteDialogOpen \/ detailsDialogOpen))

\* An empty form, or the screen of a key that has not been seen yet.
OpenCreateDialog ==
  /\ ~keysLoading /\ ~Modal /\ createDialogOpen' = TRUE
  /\ hasBeenCopied' = (hasBeenCopied /\ newApiKey # NoKey)
  /\ UNCHANGED <<keyServerVars, sectionVars, deleteDialogOpen, detailsDialogOpen,
                 selectedApiKey, newApiKey, creating, revoking, keyAsks, lost, keyHistory>>
  /\ Display

\* Mutation: the form can be sent again.
handleSubmit_Again ==
  /\ createDialogOpen /\ newApiKey = NoKey /\ AskRoom
  /\ creating' = TRUE
  /\ keyAsks' = AddAsk(keyAsks, [op |-> "create", named |-> NoKey, done |-> FALSE])
  /\ UNCHANGED <<keyServerVars, sectionVars, createDialogOpen, deleteDialogOpen,
                 detailsDialogOpen, selectedApiKey, newApiKey, hasBeenCopied, revoking, lost,
                 keyHistory, seenKeys>>

handleSubmit ==
  /\ createDialogOpen /\ newApiKey = NoKey /\ ~creating /\ AskRoom
  /\ creating' = TRUE
  /\ keyAsks' = AddAsk(keyAsks, [op |-> "create", named |-> NoKey, done |-> FALSE])
  /\ UNCHANGED <<keyServerVars, sectionVars, createDialogOpen, deleteDialogOpen,
                 detailsDialogOpen, selectedApiKey, newApiKey, hasBeenCopied, revoking, lost,
                 keyHistory, seenKeys>>

copyKey ==
  /\ createDialogOpen /\ newApiKey # NoKey /\ hasBeenCopied' = TRUE
  /\ UNCHANGED <<keyServerVars, sectionVars, createDialogOpen, deleteDialogOpen,
                 detailsDialogOpen, selectedApiKey, newApiKey, creating, revoking, keyAsks, lost,
                 keyHistory, seenKeys>>

\* The form is left, which the Escape key does also while a key is being created; or, once
\* the user has copied the key or confirmed, its screen: the new key is forgotten.
handleCreateDialogClose ==
  /\ createDialogOpen /\ createDialogOpen' = FALSE
  /\ newApiKey' = NoKey /\ hasBeenCopied' = (hasBeenCopied /\ newApiKey = NoKey)
  /\ UNCHANGED <<keyServerVars, sectionVars, deleteDialogOpen, detailsDialogOpen,
                 selectedApiKey, creating, revoking, keyAsks, lost, keyHistory, seenKeys>>

openDeleteDialog(k) ==
  /\ ~keysLoading /\ ~Modal /\ k \in apiKeys
  /\ selectedApiKey' = k /\ deleteDialogOpen' = TRUE
  /\ UNCHANGED <<keyServerVars, sectionVars, createDialogOpen, detailsDialogOpen, newApiKey,
                 creating, hasBeenCopied, revoking, keyAsks, lost, keyHistory, seenKeys>>

openSetupDialog(k) ==
  /\ ~keysLoading /\ ~Modal /\ k \in apiKeys
  /\ selectedApiKey' = k /\ detailsDialogOpen' = TRUE
  /\ UNCHANGED <<keyServerVars, sectionVars, createDialogOpen, deleteDialogOpen, newApiKey,
                 creating, hasBeenCopied, revoking, keyAsks, lost, keyHistory, seenKeys>>

\* Escape closes either, the one to revoke a key also while that is under way.
CloseDetails ==
  /\ selectedApiKey # NoKey
  /\ \/ deleteDialogOpen /\ deleteDialogOpen' = FALSE /\ UNCHANGED detailsDialogOpen
     \/ detailsDialogOpen /\ detailsDialogOpen' = FALSE /\ UNCHANGED deleteDialogOpen
  /\ UNCHANGED <<keyServerVars, sectionVars, createDialogOpen, selectedApiKey, newApiKey,
                 creating, hasBeenCopied, revoking, keyAsks, lost, keyHistory, seenKeys>>

handleRevoke ==
  /\ selectedApiKey # NoKey /\ deleteDialogOpen /\ ~revoking /\ AskRoom
  /\ revoking' = TRUE
  /\ keyAsks' = AddAsk(keyAsks, [op |-> "delete", named |-> selectedApiKey, done |-> FALSE])
  /\ UNCHANGED <<keyServerVars, sectionVars, createDialogOpen, deleteDialogOpen,
                 detailsDialogOpen, selectedApiKey, newApiKey, creating, hasBeenCopied, lost,
                 keyHistory, seenKeys>>

-----------------------------------------------------------------------------
(* The frontend's routes, which pass a request on to the API *)

POSTKey(i) ==
  /\ keyAsks[i].op = "create" /\ ~keyAsks[i].done /\ keyCounter < MaxKey
  /\ createApiKey
  /\ keyAsks' = [keyAsks EXCEPT ![i] = [@ EXCEPT !.done = TRUE, !.named = keyCounter + 1]]
  /\ UNCHANGED <<sectionVars, dialogVars, lost, keyHistory, seenKeys>>

DELETEKey(i) ==
  /\ keyAsks[i].op = "delete" /\ ~keyAsks[i].done
  /\ deleteApiKey(keyAsks[i].named)
  /\ keyAsks' = [keyAsks EXCEPT ![i] = [@ EXCEPT !.done = TRUE]]
  /\ UNCHANGED <<sectionVars, dialogVars, lost, keyHistory, seenKeys>>

GETKeys(i) ==
  /\ IsFetch(keyAsks[i]) /\ ~keyAsks[i].keysRead
  /\ keyAsks' = [keyAsks EXCEPT ![i] = [@ EXCEPT !.keysRead = TRUE, !.keys = getApiKeys]]
  /\ UNCHANGED <<keyServerVars, sectionVars, dialogVars, lost, keyHistory, seenKeys>>

GETKeyStats(i) ==
  /\ IsFetch(keyAsks[i]) /\ ~keyAsks[i].statsRead
  /\ keyAsks' = [keyAsks EXCEPT ![i] = [@ EXCEPT !.statsRead = TRUE, !.stats = getApiKeyStats]]
  /\ UNCHANGED <<keyServerVars, sectionVars, dialogVars, lost, keyHistory, seenKeys>>

-----------------------------------------------------------------------------
(* Answers *)

\* The new key is kept for its screen, also when the dialog is closed by now.
handleCreateApiKey(i) ==
  /\ keyAsks[i].op = "create" /\ keyAsks[i].done
  /\ newApiKey' = keyAsks[i].named /\ givenKeys' = givenKeys \cup {keyAsks[i].named}
  /\ keyAsks' = fetchApiKeys([keyAsks EXCEPT ![i] = NoRequest], "create")
  /\ UNCHANGED createDialogOpen /\ Display
  /\ UNCHANGED <<keyServerVars, sectionVars, deleteDialogOpen, detailsDialogOpen,
                 selectedApiKey, creating, hasBeenCopied, revoking, lost, outdated>>

\* Whichever key the dialogs are open for, they close; the next to open is another dialog.
handleDeleteApiKey(i) ==
  /\ keyAsks[i].op = "delete" /\ keyAsks[i].done
  /\ deleteDialogOpen' = FALSE /\ selectedApiKey' = NoKey /\ revoking' = FALSE
  /\ keyAsks' = fetchApiKeys([keyAsks EXCEPT ![i] = NoRequest], "delete")
  /\ UNCHANGED <<keyServerVars, sectionVars, createDialogOpen, detailsDialogOpen, newApiKey,
                 creating, hasBeenCopied, lost, keyHistory, seenKeys>>

\* Both parts of fetchApiKeys are there; the create that waits for it has ended.
Fetched(i) ==
  /\ IsFetch(keyAsks[i]) /\ keyAsks[i].keysRead /\ keyAsks[i].statsRead
  /\ apiKeys' = keyAsks[i].keys /\ keyStats' = keyAsks[i].stats /\ keysLoading' = FALSE
  /\ creating' = (creating /\ keyAsks[i].caller # "create")
  /\ outdated' = keyAsks[i].overlaps
  /\ keyAsks' = [keyAsks EXCEPT ![i] = NoRequest]
  /\ UNCHANGED <<keyServerVars, createDialogOpen, deleteDialogOpen, detailsDialogOpen,
                 selectedApiKey, newApiKey, hasBeenCopied, revoking, lost, givenKeys, seenKeys>>

\* An error, or no answer in ten seconds; the key may have been created or deleted.
AskFailed(i) ==
  LET r == keyAsks[i]
      gone == r.op = "delete" /\ ~r.done /\ r.named \notin issuedKeys
      rest == [keyAsks EXCEPT ![i] = NoRequest]
  IN /\ r # NoRequest
     /\ keyAsks' = IF ~IsFetch(r) /\ r.done THEN Overlapped(rest) ELSE rest
     /\ IF gone THEN UNCHANGED lost ELSE lost < MaxLost /\ lost' = lost + 1
     /\ outdated' = (outdated \/ IsFetch(r) \/ r.done)
     /\ keysLoading' = (keysLoading /\ ~IsFetch(r))
     /\ creating' = (creating /\ r.op # "create" /\ ~(IsFetch(r) /\ r.caller = "create"))
     /\ revoking' = (revoking /\ r.op # "delete")
     /\ UNCHANGED <<keyServerVars, apiKeys, keyStats, createDialogOpen, deleteDialogOpen,
                    detailsDialogOpen, selectedApiKey, newApiKey, hasBeenCopied, givenKeys,
                    seenKeys>>

KeyPageNext ==
  \/ OpenCreateDialog \/ handleSubmit \/ copyKey \/ handleCreateDialogClose
  \/ CloseDetails \/ handleRevoke
  \/ \E k \in ApiKeys : openDeleteDialog(k) \/ openSetupDialog(k)
  \/ \E i \in 1..MaxAsk :
       \/ POSTKey(i) \/ DELETEKey(i) \/ GETKeys(i) \/ GETKeyStats(i)
       \/ handleCreateApiKey(i) \/ handleDeleteApiKey(i) \/ Fetched(i) \/ AskFailed(i)

KeyPageSpec == KeyPageInit /\ [][KeyPageNext]_keyPageVars

-----------------------------------------------------------------------------
(* Properties *)

\* A key that the page has received is displayed before another takes its place, whenever
\* the dialog is closed; what is copied is a key on display; and with everything answered
\* the list and its statistics are the API's, but for overlapping or failed fetches.
NewKeysAreSeen ==
  /\ givenKeys \ seenKeys \subseteq {newApiKey}
  /\ hasBeenCopied => newApiKey \in seenKeys
  /\ (\A i \in 1..MaxAsk : keyAsks[i] = NoRequest) /\ ~outdated =>
       apiKeys = issuedKeys /\ keyStats = Cardinality(issuedKeys)
=============================================================================
