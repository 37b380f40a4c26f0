------------------------------- MODULE Frames --------------------------------
(***************************************************************************)
(* The JSON-lines protocol of the daemon: which lines are frames, how a    *)
(* connection is negotiated by its first frame, and which requests the     *)
(* connection admits afterwards.                                           *)
(*                                                                         *)
(* A line is [bytes |-> its length, data |-> the object in it]; an object  *)
(* is a function from its field names.  Malformed stands for whatever the  *)
(* type of a field, or of the line, does not admit.                        *)
(***************************************************************************)
EXTENDS Naturals, FiniteSets

CONSTANTS
    Major,      \* PROTOCOL_MAJOR
    Minor,      \* PROTOCOL_MINOR
    MaxFrame,   \* max_frame_bytes
    Malformed,
    Nothing     \* a field that is None

-----------------------------------------------------------------------------
(* Methods.                                                                *)

Projections == {"search", "changes", "timeline", "entities", "entity"}

Methods == Projections \cup {"health", "write", "promote", "context", "evidence", "history",
                             "conflicts", "resolve_conflict", "enqueue"}

(* METHOD_CAPABILITIES *)
RequiredCapability(method) ==
    IF method \in Projections THEN "search" ELSE IF method = "promote" THEN "write" ELSE method

ReadOnlyMethods == Projections \cup {"context", "evidence", "history", "conflicts"}

-----------------------------------------------------------------------------
(* Frames.                                                                 *)

ContextRequired == {"client_id", "surface", "agent_id", "session_id", "access_scopes"}

ContextOptional == {"parent_agent_id", "project_root", "repository", "branch", "commit_sha"}

(* _check_keys: the required keys, and none but the optional ones beside *)
CheckKeys(data, required, optional) ==
    required \subseteq DOMAIN data /\ DOMAIN data \subseteq required \cup optional

(* No value is of the wrong type, empty, too deep or not finite. *)
ValuesOK(data) == \A key \in DOMAIN data : data[key] # Malformed

ProtocolOK(version) == CheckKeys(version, {"major", "minor"}, {}) /\ ValuesOK(version)

ContextOK(context) ==
    /\ CheckKeys(context, ContextRequired, ContextOptional)
    /\ ValuesOK(context)
    /\ context["access_scopes"] # {}

HandshakeOK(data) ==
    /\ CheckKeys(data, {"type", "protocol", "schema_version", "capabilities", "context"},
                 {"credential"})
    /\ ContextOK(data["context"])

RequestOK(data) ==
    /\ CheckKeys(data, {"type", "protocol", "schema_version", "request_id", "method", "params"}, {})
    /\ data["method"] \in Methods
    /\ DOMAIN data["params"] \cap (ContextRequired \cup ContextOptional) = {}

HandshakeResponseOK(data) ==
    /\ CheckKeys(data, {"type", "protocol", "schema_version", "capabilities", "service_version",
                        "accepted", "error"}, {})
    /\ data["accepted"] <=> data["error"] = Nothing

ResponseOK(data) ==
    /\ CheckKeys(data, {"type", "protocol", "schema_version", "request_id", "ok", "result",
                        "error"}, {})
    /\ data["ok"] <=> data["error"] = Nothing
    /\ ~data["ok"] => data["result"] = Nothing

(* decode_frame, called without the check of the major number *)
Decodes(line) ==
    /\ line.bytes <= MaxFrame
    /\ line.data # Malformed
    /\ "type" \in DOMAIN line.data
    /\ ValuesOK(line.data)
    /\ \/ line.data["type"] = "handshake" /\ HandshakeOK(line.data)
       \/ line.data["type"] = "request" /\ RequestOK(line.data)
       \/ line.data["type"] = "handshake_response" /\ HandshakeResponseOK(line.data)
       \/ line.data["type"] = "response" /\ ResponseOK(line.data)
    /\ ProtocolOK(line.data["protocol"])

-----------------------------------------------------------------------------
(* Negotiation.                                                            *)

(* The configuration keeps digests, not credentials. *)
Digest(credential) == <<"sha256", credential>>

(* Mutated form of Proven: a client that is not on record passes. *)
ProvenIfKnown(config, client, credential) ==
    client \in DOMAIN config.credentials => config.credentials[client] = Digest(credential)

(* A server without credentials asks for none. *)
Proven(config, client, credential) ==
    DOMAIN config.credentials # {} =>
      client \in DOMAIN config.credentials /\ config.credentials[client] = Digest(credential)

CredentialOf(hello) == IF "credential" \in DOMAIN hello THEN hello["credential"] ELSE Nothing

Negotiable(hello) == hello["protocol"]["major"] = Major

(* Mutated form of Capabilities: what the client asks for. *)
CapabilitiesAsked(config, hello) == hello["capabilities"]

(* negotiate_handshake: what both have *)
Capabilities(config, hello) == hello["capabilities"] \cap config.capabilities

(* UnixJsonDaemon._negotiate *)
Accepts(config, line) ==
    LET hello == line.data IN
    /\ Decodes(line) /\ hello["type"] = "handshake"
    /\ Negotiable(hello)
    /\ hello["protocol"]["minor"] <= Minor
    /\ hello["schema_version"] = config.schema
    /\ Proven(config, hello["context"]["client_id"], CredentialOf(hello))

(* _NegotiatedConnection *)
Connection(config, hello) ==
    [client |-> hello["context"]["client_id"], caps |-> Capabilities(config, hello),
     protocol |-> hello["protocol"]]

(* A frame that is no request, or one whose versions are not those of the  *)
(* handshake, ends the connection.                                         *)
Compatible(config, conn, line) ==
    /\ Decodes(line) /\ line.data["type"] = "request"
    /\ line.data["protocol"] = conn.protocol
    /\ line.data["schema_version"] = config.schema

(* A request without its capability is refused; the connection stays. *)
Admits(conn, line) == RequiredCapability(line.data["method"]) \in conn.caps

(* DaemonConfig.__post_init__ *)
ConfigOK(config) ==
    /\ config.schema \in Nat
    /\ \A a, b \in DOMAIN config.credentials :
         a # b => config.credentials[a] # config.credentials[b]

=============================================================================
