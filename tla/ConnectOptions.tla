---------------------------- MODULE ConnectOptions -----------------------------
(***************************************************************************)
(* ConnectOptions, its builder, and what a connection takes from it: the   *)
(* headers of the upgrade request and the keepalive of the socket loop     *)
(* (config.rs, connect_with_codec and reconnect in lib.rs).                *)
(*                                                                         *)
(* A HeaderMap gives each of its names a nonempty sequence of values.      *)
(***************************************************************************)
EXTENDS Naturals, SequencesExt, FiniteSetsExt, Functions

CONSTANTS
    Names,        \* header names
    Generated,    \* the names tungstenite generates a value for
    Values,       \* header values of the user
    Intervals,    \* keepalive intervals
    Messages,     \* custom keepalive messages
    Default,      \* the interval of ConnectOptions::default()
    None,
    MaxValues,    \* values of one name in a map given to `headers`
    MaxCalls,     \* builder calls
    MaxConnects   \* connections made with the options

\* A HeaderMap is finite, and None is not a name or a value of anything.
ASSUME OptionsConstants ==
    /\ IsFiniteSet(Names) /\ Generated \subseteq Names /\ Default \in Intervals
    /\ None \notin Names \cup Intervals \cup Messages \cup Values
    /\ MaxValues \in Nat \ {0} /\ MaxCalls \in Nat /\ MaxConnects \in Nat

VARIABLES
    options,   \* the fields of ConnectOptions
    stage,     \* "builder" | "options" (built) | "connected"
    requests,  \* the headers of the upgrade request of each connection
    beats,     \* what the loop of each connection sends when it is idle, or None
    log        \* the builder calls so far

vars == <<options, stage, requests, beats, log>>

DefaultOptions ==
    [extra_headers |-> <<>>, keepalive_interval |-> Default, custom_keepalive_message |-> None]

Init ==
    /\ options = DefaultOptions /\ stage = "builder"
    /\ requests = <<>> /\ beats = <<>> /\ log = <<>>

--------------------------------------------------------------------------------
HeaderMaps ==
    UNION {[S -> UNION {[1..n -> Values] : n \in 1..MaxValues}] : S \in SUBSET Names}

\* HeaderMap::insert: the only value of the name from now on.
insert(map, name, value) ==
    [n \in DOMAIN map \cup {name} |-> IF n = name THEN <<value>> ELSE map[n]]

\* The orders in which an iteration over a HeaderMap may come by its values: each once,
\* those of one name in the order they were added.
Positions(map) == UNION {{n} \X DOMAIN map[n] : n \in DOMAIN map}

Iterations(map) ==
    {it \in Surjection(1..Cardinality(Positions(map)), Positions(map)) :
        \A i, j \in DOMAIN it : i < j /\ it[i][1] = it[j][1] => it[i][2] < it[j][2]}

\* The request of into_client_request.
into_client_request == [n \in Generated |-> <<"generated">>]

\* The request after the for loop, for each way the iteration may go.
build_request(opts, it) ==
    LET map == opts.extra_headers
        request[i \in 0..Len(it)] ==
            IF i = 0 THEN into_client_request
            ELSE insert(request[i - 1], it[i][1], map[it[i][1]][it[i][2]])
    IN  request[Len(it)]

\* Slip: a custom message is sent although keepalives are disabled.
KeepaliveFrameCustomFirst(opts) ==
    IF opts.custom_keepalive_message # None THEN opts.custom_keepalive_message
    ELSE IF opts.keepalive_interval = None THEN None ELSE "Ping"

\* What the loop that gets the options sends when its timer fires (send_keepalive).
KeepaliveFrame(opts) ==
    IF opts.keepalive_interval = None THEN None
    ELSE IF opts.custom_keepalive_message = None THEN "Ping" ELSE opts.custom_keepalive_message

--------------------------------------------------------------------------------
Builder(op, name, arg, opts) ==
    /\ stage = "builder" /\ Len(log) < MaxCalls
    /\ options' = opts
    /\ log' = Append(log, [op |-> op, name |-> name, arg |-> arg])
    /\ UNCHANGED <<stage, requests, beats>>

header(name, value) ==
    Builder("header", name, value,
            [options EXCEPT !.extra_headers = insert(@, name, value)])

headers(map) == Builder("headers", None, map, [options EXCEPT !.extra_headers = map])

keepalive_interval(i) ==
    Builder("interval", None, i, [options EXCEPT !.keepalive_interval = i])

custom_keepalive_message(m) ==
    Builder("message", None, m, [options EXCEPT !.custom_keepalive_message = m])

build == stage = "builder" /\ stage' = "options" /\ UNCHANGED <<options, requests, beats, log>>

\* The part of connect_with_codec that reads the options.
Connect(opts) ==
    /\ Len(requests) < MaxConnects
    /\ \E it \in Iterations(opts.extra_headers) :
            requests' = Append(requests, build_request(opts, it))
    /\ beats' = Append(beats, KeepaliveFrame(opts))
    /\ options' = opts /\ stage' = "connected" /\ UNCHANGED log

connect_with == stage = "options" /\ Connect(options)

\* Slip: a reconnect starts from the default options.
ReconnectWithDefaults == stage = "connected" /\ Connect(DefaultOptions)

reconnect == stage = "connected" /\ Connect(options)

Next ==
    \/ \E n \in Names, v \in Values : header(n, v)
    \/ \E map \in HeaderMaps : headers(map)
    \/ \E i \in Intervals \cup {None} : keepalive_interval(i)
    \/ \E m \in Messages \cup {None} : custom_keepalive_message(m)
    \/ build \/ connect_with \/ reconnect

Spec == Init /\ [][Next]_vars

--------------------------------------------------------------------------------
\* The calls of the log that satisfy P.
Deciding(P(_)) == {i \in DOMAIN log : P(log[i])}

\* The argument of the last call of a setter.
LastSet(op, default) ==
    LET set == Deciding(LAMBDA c : c.op = op)
    IN  IF set = {} THEN default ELSE log[Max(set)].arg

\* The value the user asked for last under a name: that of `header`, or the last one of
\* the map that `headers` replaced everything by.
LastValue(n) ==
    LET set == Deciding(LAMBDA c : c.op = "headers" \/ c.name = n)
        call == log[Max(set)]
    IN  IF set = {} THEN None
        ELSE IF call.op = "header" THEN call.arg
        ELSE IF n \in DOMAIN call.arg THEN Last(call.arg[n]) ELSE None

\* Every connection, a reconnect included, is requested with exactly the headers the
\* sequence of builder calls amounts to (last write wins, `headers` forgets the earlier
\* ones), and with the generated value where the user set none.
RequestAsConfigured ==
    \A k \in DOMAIN requests :
        /\ DOMAIN requests[k] = Generated \cup {n \in Names : LastValue(n) # None}
        /\ \A n \in DOMAIN requests[k] :
            requests[k][n] = IF LastValue(n) = None THEN <<"generated">> ELSE <<LastValue(n)>>

\* Every connection, a reconnect included, is kept alive the way the builder was told
\* last: not at all, with a Ping, or with the custom message.
KeepaliveAsConfigured ==
    \A k \in DOMAIN beats :
        LET m == LastSet("message", None)
        IN  beats[k] = IF LastSet("interval", Default) = None THEN None
                       ELSE IF m = None THEN "Ping" ELSE m

================================================================================
