---------------------------- MODULE EventStreams ----------------------------
(***************************************************************************)
(* analyses/events.py: the server-sent events of a user's analyses.  What  *)
(* the analyses do meanwhile is what AnalysisLifecycle says, which Backend *)
(* implements; the generator only sees the status of each poll.            *)
(***************************************************************************)
EXTENDS Naturals, FiniteSets

CONSTANTS
    Analyses,    \* the user's analyses
    Streams,     \* the response bodies that may be open at a time
    MaxStreams,  \* MAX_CONNECTIONS_PER_USER
    None         \* no analysis

ASSUME StreamAssumption == MaxStreams \in Nat /\ None \notin Analyses

VARIABLES
    status, deleted,   \* the stored analyses
    connections,       \* _active_connections of the user
    stream             \* each generator: its analysis and its last_status

streamVars == <<connections, stream>>

Lifecycle == INSTANCE AnalysisLifecycle

Closed == [at |-> "closed", on |-> None, last |-> "absent"]

Open == {s \in Streams : stream[s].at # "closed"}

\* Mutant of Terminal: cancellation is forgotten.
TerminalRuns == {"completed", "failed"}

\* The statuses that end a stream.
Terminal == {"completed", "failed", "cancelled"}

\* The check of the maximum, in the same step as the increment.
Admits == connections < MaxStreams

Found(a) == status[a] # "absent" /\ ~deleted[a]

\* stream_analysis_events after its find_one: a 404, a 429 or a new stream.
NotFound(a) == ~Found(a) /\ UNCHANGED streamVars

TooMany(a) == Found(a) /\ ~Admits /\ UNCHANGED streamVars

\* The body of the next response.
Body == CHOOSE s \in Streams \ Open : TRUE

Accept(a) ==
    /\ Found(a) /\ Admits
    /\ connections' = connections + 1
    /\ Streams # Open
    /\ stream' = [stream EXCEPT ![Body] = [at |-> "opened", on |-> a, last |-> "absent"]]

\* The snapshot event.  A soft-deleted analysis is still found.
Snapshot(s) ==
    /\ stream[s].at = "opened"
    /\ stream' = [stream EXCEPT ![s].at = "polling", ![s].last = status[stream[s].on]]
    /\ UNCHANGED connections

\* A poll that finds another status: status_change, then done if it is a
\* terminal one.  _active_connections is left as it is.
Poll(s) ==
    LET seen == status[stream[s].on]
    IN  /\ stream[s].at = "polling"
        /\ seen # stream[s].last
        /\ stream' = [stream EXCEPT ![s] = IF seen \in Terminal THEN Closed
                                           ELSE [stream[s] EXCEPT !.last = seen]]
        /\ UNCHANGED connections

\* The client is gone, the server stops, or a poll raises.
Cut(s) ==
    /\ stream[s].at # "closed"
    /\ stream' = [stream EXCEPT ![s] = Closed]
    /\ UNCHANGED connections

StreamsInit ==
    /\ Lifecycle!Init
    /\ connections = 0
    /\ stream = [s \in Streams |-> Closed]
=============================================================================
