---------------------------- MODULE ConfigUpdate ----------------------------
(***************************************************************************)
(* The configuration (internal/config) and PUT /api/config                   *)
(* (internal/handler/config_handler.go).  Load puts it together from the     *)
(* defaults, a file and the environment, and validates it.  UpdateConfig     *)
(* assigns what the request has, and validates afterwards.  Every request    *)
(* runs in a goroutine of its own and nothing locks the struct, so a string  *)
(* is assigned as two words, its data and its length, in either order.       *)
(* Fields that no request changes are left out; they are as Load leaves them.*)
(***************************************************************************)
EXTENDS Integers, FiniteSets

CONSTANTS
    Putters,        \* requests of PUT /api/config
    Texts,          \* hosts and log levels
    Ports,          \* ports, good and bad
    DefaultText,    \* the host and the level of DefaultConfig
    DefaultPort,    \* its port
    MaxPort,        \* the highest port; 65535 in the code
    Keep            \* a field that a source or a request does not have

ASSUME ConfigAssumption ==
    /\ DefaultText \in Texts /\ DefaultPort \in Ports
    /\ MaxPort \in Nat
    /\ Ports \subseteq Int /\ DefaultPort \in 1..MaxPort
    /\ Keep \notin Texts \cup Ports

VARIABLES
    config,     \* the words of the Config that all requests share
    put         \* what each request is doing

configVars == <<config, put>>

-----------------------------------------------------------------------------
Words == {"host.data", "host.len", "port", "level.data", "level.len"}

\* UpdateConfig assigns the host, then the port, then the level.
Turn == [w \in Words |-> CASE w \in {"host.data", "host.len"} -> 1
                           [] w = "port" -> 2
                           [] OTHER -> 3]

\* The words of a host, a port and a level.
WordsOf(host, port, level) ==
    [w \in Words |-> CASE w \in {"host.data", "host.len"} -> host
                       [] w = "port" -> port
                       [] OTHER -> level]

\* A file, an environment and the body of a request have any of the fields.
Updates == {WordsOf(h, p, l) : h \in Texts \cup {Keep}, p \in Ports \cup {Keep},
                               l \in Texts \cup {Keep}}

\* Mutant: 0 is a port.
ValidFromZero(c) == c["port"] >= 0 /\ c["port"] <= MaxPort

\* Config.Validate; the port is loaded once.
Valid(c) == c["port"] > 0 /\ c["port"] <= MaxPort

\* Load: the environment comes before the file, and the file before the defaults.
Load(file, env) ==
    [w \in Words |-> IF env[w] # Keep THEN env[w]
                     ELSE IF file[w] # Keep THEN file[w]
                     ELSE WordsOf(DefaultText, DefaultPort, DefaultText)[w]]

\* "writing": the assignments, and Validate when no word is left.  `before' are
\* the requests that were answered when this one came.
PutRequest == [pc : {"none", "writing", "accepted", "rejected"}, update : Updates,
               left : SUBSET Words, before : SUBSET Putters]
NoPutRequest == [pc |-> "none", update |-> WordsOf(Keep, Keep, Keep), left |-> {}, before |-> {}]

Answered == {p \in Putters : put[p].pc \in {"accepted", "rejected"}}

\* main goes on only with a configuration that is valid.
ConfigInit ==
    /\ \E file, env \in Updates : config = Load(file, env)
    /\ Valid(config)
    /\ put = [p \in Putters |-> NoPutRequest]

-----------------------------------------------------------------------------
\* The body was read.
BeginPut(p, update) ==
    /\ put[p].pc = "none"
    /\ put' = [put EXCEPT ![p] =
                  [pc |-> "writing", update |-> update,
                   left |-> {w \in Words : update[w] # Keep}, before |-> Answered]]
    /\ UNCHANGED config

\* One word of an assignment.
AssignWord(p, w) ==
    /\ put[p].pc = "writing"
    /\ w \in put[p].left
    /\ \A v \in put[p].left : Turn[w] <= Turn[v]
    /\ config' = [config EXCEPT ![w] = put[p].update[w]]
    /\ put' = [put EXCEPT ![p].left = @ \ {w}]

\* Validate looks at the configuration as it is by now: 200 or 400.
AnswerPut(p) ==
    /\ put[p].pc = "writing"
    /\ put[p].left = {}
    /\ put' = [put EXCEPT ![p].pc = IF Valid(config) THEN "accepted" ELSE "rejected"]
    /\ UNCHANGED config

-----------------------------------------------------------------------------
ConfigNext ==
    \E p \in Putters :
        \/ \E update \in Updates : BeginPut(p, update)
        \/ \E w \in Words : AssignWord(p, w)
        \/ AnswerPut(p)

ConfigSpec == ConfigInit /\ [][ConfigNext]_configVars

-----------------------------------------------------------------------------
(* Properties.                                                             *)

ConfigTypeOK ==
    /\ config \in [Words -> Texts \cup Ports] /\ config["port"] \in Ports
    /\ put \in [Putters -> PutRequest]

\* However requests overlap, the configuration is invalid only by a request that
\* is still under way or was answered 400; a 400 does not undo what it is about
\* (config_handler.go:63-82).
InvalidIsReported ==
    config["port"] \notin 1..MaxPort =>
        \E p \in Putters : /\ put[p].pc \in {"writing", "rejected"}
                           /\ put[p].update["port"] = config["port"]

\* p came after the others that have begun were answered.
CameLast(p) == \A q \in Putters \ {p} : put[q].pc = "none" \/ q \in put[p].before

\* A request that overlapped with no other leaves all its fields in the
\* configuration, whole and whatever its answer was, until the next one comes,
\* and the answer says whether the configuration is valid
\* (config_handler.go:63-82).
LastPutStays ==
    \A p \in Answered : CameLast(p) =>
        /\ \A w \in Words : put[p].update[w] # Keep => config[w] = put[p].update[w]
        /\ put[p].pc = "accepted" <=> config["port"] \in 1..MaxPort

\* The answers tell what the requests have made of the configuration, however
\* they overlap (config_handler.go:63-82).
UpdatesAreAnswered == InvalidIsReported /\ LastPutStays
=============================================================================
