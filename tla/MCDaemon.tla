------------------------------ MODULE MCDaemon ------------------------------
(* Small instances of Daemon: a server and its successor, which offers     *)
(* less and no longer knows one of the two clients.                        *)
EXTENDS Daemon, TLC

CONSTANTS s1, s2, c1, c2, h1, h2

Grants == ("a" :> Digest("secret-a")) @@ ("b" :> Digest("secret-b"))

MCConfig == [s \in Servers |->
    IF s = s1 THEN [schema |-> 1, capabilities |-> {"health", "search", "write"}, credentials |-> Grants]
    ELSE [schema |-> 1, capabilities |-> {"search"}, credentials |-> "a" :> Digest("secret-a")]]

Context(client) ==
    [client_id |-> client, surface |-> "cli", agent_id |-> "main", session_id |-> "s1",
     access_scopes |-> {"private"}]

Hello(client, credential, caps) ==
    [type |-> "handshake", protocol |-> [major |-> Major, minor |-> Minor], schema_version |-> 1,
     capabilities |-> caps, context |-> Context(client), credential |-> credential]

HelloA == Hello("a", "secret-a", {"search", "write"})

Ask(method) ==
    [type |-> "request", protocol |-> [major |-> Major, minor |-> Minor], schema_version |-> 1,
     request_id |-> "r", method |-> method, params |-> <<>>]

Line(data) == [bytes |-> 1, data |-> data]

(* Greetings and requests as they should be, and each kind of line that is *)
(* refused.                                                                *)
MCLines ==
    {Line(d) : d \in {
        HelloA, Hello("b", "secret-b", {"health", "search"}),
        Hello("b", "secret-a", {"search"}), Hello("d", "secret-d", {"search"}),
        [HelloA EXCEPT !.protocol.major = Major + 1], [HelloA EXCEPT !.protocol.minor = Minor + 1],
        [HelloA EXCEPT !.schema_version = 2], [HelloA EXCEPT !.context.agent_id = Malformed],
        [HelloA EXCEPT !.context = [k \in DOMAIN @ \ {"surface"} |-> @[k]]],
        [k \in DOMAIN HelloA \ {"credential"} |-> HelloA[k]],
        Ask("health"), Ask("search"), Ask("write"), Ask("forget"),
        [Ask("write") EXCEPT !.params = [client_id |-> "b"]],
        [Ask("write") EXCEPT !.schema_version = 2],
        [type |-> "response", protocol |-> [major |-> Major, minor |-> Minor], schema_version |-> 1,
         request_id |-> "r", ok |-> TRUE, result |-> 1, error |-> Nothing],
        [type |-> "handshake_response", protocol |-> [major |-> Major, minor |-> Minor],
         schema_version |-> 1, capabilities |-> {"search"}, service_version |-> "1",
         accepted |-> FALSE, error |-> "refused"],
        Malformed}}
    \cup {[bytes |-> MaxFrame + 1, data |-> HelloA]}
=============================================================================
