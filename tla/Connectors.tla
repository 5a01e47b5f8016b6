----------------------------- MODULE Connectors -----------------------------
(***************************************************************************)
(* One connector account of an organization: its OAuth sessions, manual    *)
(* edits and synchronizations in connectorsService of apps/api.            *)
(***************************************************************************)
EXTENDS Naturals

CONSTANTS
  ConnOp,    \* requests of the API; a session has the name of its request
  NoSession

ASSUME ConnectorConstants == NoSession \notin ConnOp

ConnKind == {"session", "callback", "edit", "sync"}
ConnStatus == {"none", "pending", "syncing", "pending_token_exchange", "active"}

VARIABLES
  account,      \* [status, session]: the row, "none" if absent
  credentials,  \* the tokens of the account are stored
  connOp,       \* [ConnOp -> the request, what it read, and whether it is late]
  cursor        \* a sync cursor is queued

connVars == <<account, credentials, connOp, cursor>>

NewConnRequest ==
  [at: {"new"}, kind: ConnKind, tokens: BOOLEAN, session: {NoSession}, status: {"none"},
   late: {FALSE}]

ConnInit ==
  /\ account = [status |-> "none", session |-> NoSession]
  /\ credentials = FALSE
  /\ connOp \in [ConnOp -> NewConnRequest]
  /\ cursor = FALSE

ConnOn(o, kind, step) == connOp[o].kind = kind /\ connOp[o].at = step

\* The request goes on; if it wrote the account, those that read it are late.
Goes(o, step) == connOp' = [connOp EXCEPT ![o].at = step]
GoesReading(o, step, session) ==
  connOp' = [connOp EXCEPT ![o].at = step, ![o].session = session, ![o].status = account.status]
GoesWriting(o, step) ==
  connOp' = [r \in ConnOp |->
    IF r = o THEN [connOp[r] EXCEPT !.at = step]
    ELSE [connOp[r] EXCEPT !.late = @ \/ connOp[r].at = "write"]]

\* createConnectSession: of an active account too.
CreateSession(o) ==
  /\ ConnOn(o, "session", "new")
  /\ account' = [status |-> "pending", session |-> o]
  /\ GoesWriting(o, "done")
  /\ UNCHANGED <<credentials, cursor>>

\* upsertConnector: active unless the request says otherwise; metadata of the
\* request replace the ones with the session.
EditConnector(o) ==
  /\ ConnOn(o, "edit", "new")
  /\ \E status \in ConnStatus \ {"none"}, session \in {account.session, NoSession} :
       account' = [status |-> status, session |-> session]
  /\ GoesWriting(o, IF connOp[o].tokens THEN "credentials" ELSE "done")
  /\ UNCHANGED <<credentials, cursor>>

\* finalizeConnectSession compares the session in a read of its own,
ReadSession(o) ==
  /\ ConnOn(o, "callback", "new")
  /\ \E session \in ConnOp :
       IF account.session = session THEN GoesReading(o, "write", session) ELSE Goes(o, "done")
  /\ UNCHANGED <<account, credentials, cursor>>

\* takes the session out of the account, and makes it active if the provider
\* sent tokens; with a code it waits for their exchange, with neither for more,
FinalizeSession(o) ==
  /\ ConnOn(o, "callback", "write")
  /\ \E status \in IF connOp[o].tokens THEN {"active"} ELSE {"pending_token_exchange", "pending"} :
       account' = [status |-> status, session |-> NoSession]
  /\ GoesWriting(o, IF connOp[o].tokens THEN "credentials" ELSE "done")
  /\ UNCHANGED <<credentials, cursor>>

\* and stores the tokens, or fails to.
UpsertCredentials(o) ==
  /\ connOp[o].at = "credentials"
  /\ \/ credentials' = TRUE /\ Goes(o, "done")
     \/ UNCHANGED credentials /\ Goes(o, "failed")
  /\ UNCHANGED <<account, cursor>>

\* triggerSync: a cursor for the account it read,
ReadForSync(o) ==
  /\ ConnOn(o, "sync", "new")
  /\ IF account.status = "none" THEN Goes(o, "done") /\ UNCHANGED cursor
     ELSE GoesReading(o, "write", NoSession) /\ cursor' = TRUE
  /\ UNCHANGED <<account, credentials>>

\* Mutant: a synchronization of a connected account shows as such.
MutantAlwaysSyncing(o) == "syncing"

\* Mutant: a synchronization makes the account active.
MutantSyncActivates(o) == "active"

StatusAfterSync(o) == IF connOp[o].status = "pending" THEN "syncing" ELSE connOp[o].status

\* whose status it writes back.
WriteSync(o) ==
  /\ ConnOn(o, "sync", "write")
  /\ account' = [account EXCEPT !.status = StatusAfterSync(o)]
  /\ GoesWriting(o, "done")
  /\ UNCHANGED <<credentials, cursor>>

ConnNext ==
  \E o \in ConnOp :
    \/ CreateSession(o) \/ EditConnector(o) \/ ReadSession(o) \/ FinalizeSession(o)
    \/ UpsertCredentials(o) \/ ReadForSync(o) \/ WriteSync(o)

ConnSpec == ConnInit /\ [][ConnNext]_connVars

-----------------------------------------------------------------------------
ConnTypeOK ==
  /\ account \in [status: ConnStatus, session: ConnOp \cup {NoSession}]
  /\ {credentials, cursor} \subseteq BOOLEAN
  /\ \A o \in ConnOp : connOp[o].at \in {"new", "write", "credentials", "done", "failed"}

\* An account that nobody edited is active only with its tokens, unless they
\* are about to be stored or could not be.
ActiveHasTokens ==
  account.status = "active" /\ (\A o \in ConnOp : connOp[o].kind = "edit" => connOp[o].at = "new") =>
    \/ credentials
    \/ \E o \in ConnOp : connOp[o].at \in {"credentials", "failed"}

\* A synchronization takes the connection of an account away only if the
\* account was connected after it had read it.
SyncKeepsConnection ==
  [][\A o \in ConnOp :
       WriteSync(o) /\ account.status = "active" /\ account'.status # "active" =>
         connOp[o].late]_connVars
=============================================================================
