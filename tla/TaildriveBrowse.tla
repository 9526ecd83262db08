--------------------------- MODULE TaildriveBrowse ---------------------------
(***************************************************************************)
(* Browsing a Taildrive share (taildrive.go): taildriveList with the warm-  *)
(* up of the peer and the short cold probe, taildriveStat, taildriveMutate. *)
(* The extension runs one query at a time (taildriveQueryInFlight) and the  *)
(* UI's gateway gives each a fixed time.  Durations are in seconds; a call  *)
(* under a deadline takes no time or all of it.  Directory contents are     *)
(* left out.                                                                *)
(***************************************************************************)
EXTENDS Naturals

CONSTANTS
    Machines,
    MaxSession,          \* bound on backends started one after the other
    PeerWarmupTimeout,   \* taildrivePeerWarmupTimeout
    ColdProbeTimeout,    \* taildriveColdProbeTimeout
    ListTimeout,         \* taildriveListTimeout
    MutationTimeout,     \* taildriveMutationTimeout
    QueryGatewayTimeout, MutationGatewayTimeout  \* the UI's limits

\* The deadlines a query can meet one after the other leave the UI time.
Deadlines ==
    /\ MaxSession \in Nat \ {0}
    /\ {PeerWarmupTimeout, ColdProbeTimeout, ListTimeout, MutationTimeout,
        QueryGatewayTimeout, MutationGatewayTimeout} \subseteq Nat
    /\ PeerWarmupTimeout + ColdProbeTimeout + ListTimeout < QueryGatewayTimeout
    /\ MutationTimeout < MutationGatewayTimeout

ASSUME DeadlinesAssumption == Deadlines

VARIABLES
    session,   \* which backend is in the controller (the last one when stopped)
    client,    \* b.client # nil
    path,      \* external: machines with a data-plane path in this session
    warmAt,    \* machines with a b.taildriveWarmAt entry younger than its TTL
    readyAt,   \* the same for b.taildriveDAVReadyAt
    query      \* the query under way

vars == <<session, client, path, warmAt, readyAt, query>>

Operations == {"list", "stat", "mutate"}
Steps == {"idle", "warm", "mark", "server", "probe", "request", "answer"}

\* on: the session of the client the warm-up took, then of the server; 0 if none.
NoQuery == [at |-> "idle", op |-> "list", machine |-> "none", on |-> 0,
            tried |-> FALSE, elapsed |-> 0]

Init ==
    /\ session = 1 /\ client = TRUE /\ path = {}
    /\ warmAt = {} /\ readyAt = {}
    /\ query = NoQuery

Goto(at, time) == query' = [query EXCEPT !.at = at, !.elapsed = @ + time]

\* The backend the query took its client or server from is still there.
Reachable == client /\ query.on = session
-----------------------------------------------------------------------------
\* The query arrives and may be invalid.  A list looks at the age of the last
\* warm-up first; the root of the tree and a bare tailnet name no machine
\* (taildriveTargetMachine).
Begin(op, m) ==
    /\ query.at = "idle"
    /\ \E valid \in BOOLEAN : query' = [NoQuery EXCEPT
         !.at = IF ~valid THEN "answer"
                ELSE IF op = "list" /\ m \in Machines \ warmAt /\ client
                     THEN "warm" ELSE "server",
         !.op = op, !.machine = m, !.on = IF client THEN session ELSE 0]
    /\ UNCHANGED <<session, client, path, warmAt, readyAt>>

\* warmTaildrivePeer: Status and Ping, both under one deadline.  Status fails, the
\* peer is unknown, the ping has no answer in time, or it has one.
WarmUpEachTimed ==
    /\ query.at = "warm"
    /\ Goto("server", 2 * PeerWarmupTimeout)
    /\ UNCHANGED <<session, client, path, warmAt, readyAt>>
WarmUp ==
    /\ query.at = "warm"
    /\ \E answered \in BOOLEAN, time \in {0, PeerWarmupTimeout} :
         /\ answered => Reachable
         /\ path' = IF answered THEN path \cup {query.machine} ELSE path
         /\ query' = [query EXCEPT !.at = IF answered THEN "mark" ELSE "server",
                                   !.tried = TRUE, !.elapsed = @ + time]
    /\ UNCHANGED <<session, client, warmAt, readyAt>>

\* The entry is written afterwards, whatever has become of the backend.
MarkWarm ==
    /\ query.at = "mark"
    /\ warmAt' = warmAt \cup {query.machine}
    /\ Goto("server", 0)
    /\ UNCHANGED <<session, client, path, readyAt>>

\* taildriveServer, and taildriveDAVReady for a list: unavailable, or a cold probe
\* first, or the request at once.
ReadServer ==
    /\ query.at = "server"
    /\ query' = [query EXCEPT
         !.at = IF ~client THEN "answer"
                ELSE IF query.op = "list" /\ query.machine \in Machines \ readyAt
                     THEN "probe" ELSE "request",
         !.on = IF client THEN session ELSE 0]
    /\ UNCHANGED <<session, client, path, warmAt, readyAt>>

\* markTaildriveDAVReady after a list that answered.
MarkReady ==
    readyAt' = IF query.op = "list" /\ query.machine \in Machines
               THEN readyAt \cup {query.machine} ELSE readyAt

\* The cold probe answers; or fails for good; or times out, or fails in a way that
\* is worth another try (taildriveColdProbeRetryable).
Probe ==
    /\ query.at = "probe"
    /\ \/ Reachable /\ query.machine \in path /\ MarkReady /\ Goto("answer", 0)
       \/ UNCHANGED readyAt /\ Goto("answer", 0)
       \/ UNCHANGED readyAt /\ \E time \in {0, ColdProbeTimeout} : Goto("request", time)
    /\ UNCHANGED <<session, client, path, warmAt>>

\* The PROPFIND of a list or stat, under its deadline.  One that answers has brought
\* the path up by itself.
Propfind ==
    /\ query.at = "request" /\ query.op \in {"list", "stat"}
    /\ \E time \in {0, ListTimeout} : Goto("answer", time)
    /\ \/ Reachable /\ MarkReady /\ path' = path \cup ({query.machine} \cap Machines)
       \/ UNCHANGED <<readyAt, path>>
    /\ UNCHANGED <<session, client, warmAt>>

\* taildriveMutate: MKCOL, DELETE or MOVE.
Mutate ==
    /\ query.at = "request" /\ query.op = "mutate"
    /\ \E time \in {0, MutationTimeout} : Goto("answer", time)
    /\ \/ Reachable /\ path' = path \cup ({query.machine} \cap Machines)
       \/ UNCHANGED path
    /\ UNCHANGED <<session, client, warmAt, readyAt>>

\* The answer is marshalled and the extension writes the response.
Answer ==
    /\ query.at = "answer"
    /\ query' = NoQuery
    /\ UNCHANGED <<session, client, path, warmAt, readyAt>>

QueryStep == WarmUp \/ MarkWarm \/ ReadServer \/ Probe \/ Propfind \/ Mutate \/ Answer
-----------------------------------------------------------------------------
\* taildrivePeerWarmupTTL passes for an entry.
Expire(m) ==
    /\ m \in warmAt \cup readyAt
    /\ \/ warmAt' = warmAt \ {m} /\ UNCHANGED readyAt
       \/ readyAt' = readyAt \ {m} /\ UNCHANGED warmAt
    /\ UNCHANGED <<session, client, path, query>>

Stop ==
    /\ client
    /\ client' = FALSE /\ path' = {}
    /\ UNCHANGED <<session, warmAt, readyAt, query>>

\* start forgets both maps; restartWithTun does not.
Start ==
    /\ ~client /\ session < MaxSession
    /\ session' = session + 1 /\ client' = TRUE
    /\ warmAt' = {} /\ readyAt' = {}
    /\ UNCHANGED <<path, query>>

RestartWithTun ==
    /\ session < MaxSession
    /\ session' = session + 1 /\ client' = TRUE /\ path' = {}
    /\ UNCHANGED <<warmAt, readyAt, query>>

Next ==
    \/ \E op \in Operations, m \in Machines \cup {"none"} : Begin(op, m)
    \/ QueryStep
    \/ \E m \in Machines : Expire(m)
    \/ Stop \/ Start \/ RestartWithTun

Spec == Init /\ [][Next]_vars
-----------------------------------------------------------------------------
(* Properties *)

\* Every variable keeps its type.
TypeOK ==
    /\ session \in 1 .. MaxSession /\ client \in BOOLEAN
    /\ path \subseteq Machines /\ warmAt \subseteq Machines /\ readyAt \subseteq Machines
    /\ query \in [at : Steps, op : Operations, machine : Machines \cup {"none"},
                  on : 0 .. MaxSession, tried : BOOLEAN, elapsed : Nat]

\* The native deadlines add up to less than the UI waits: a warm-up, a cold probe and
\* a full list, or a mutation, have answered before the gateway gives up and sends
\* its next request into a channel that is still busy.
QueryInTime ==
    query.elapsed < IF query.op = "mutate" THEN MutationGatewayTimeout
                                           ELSE QueryGatewayTimeout

\* A query stays within the time its caller waits, whatever it meets on its way.
QueryInv == TypeOK /\ QueryInTime

\* No list sends its first request to a peer that is cold in this session without a
\* warm-up before it ("establishes a real Tailscale data-plane path before the first
\* remote WebDAV request").
ColdPeerWarmedUp ==
    [][query.op = "list" /\ query.machine \in Machines /\ query.on = session
         /\ query.at = "server" /\ query'.at \in {"probe", "request"}
             => query.tried \/ query.machine \in path]_vars
=============================================================================
