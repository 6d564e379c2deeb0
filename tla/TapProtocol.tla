---------------------------- MODULE TapProtocol ----------------------------
(***************************************************************************)
(* The two tap demos (demos/tap-protocol and demos/tap-train): a Gateway   *)
(* numbers and signs a client's call, a Tap relays it to the Host cluster  *)
(* and the answer back, and then, in a thread of its own that nobody waits *)
(* for, asks the Recomputation cluster to compute the answer again.  In    *)
(* "inference" a cluster is a shim in front of a deterministic server; in  *)
(* "training" it trains a LoRA adapter under its train_lock, the Host      *)
(* keeps the adapter on disk under its digest, and the client may fetch    *)
(* it.  The four are processes: each may end and be started again, and its *)
(* handler threads are daemons that end with it.                           *)
(*                                                                         *)
(* A call is one client request.  The lists of the handlers' refusals of   *)
(* bodies that do not parse (400) are left out: these processes only send  *)
(* envelopes they made.  Mock mode is left out.                            *)
(***************************************************************************)
EXTENDS Integers, FiniteSets

CONSTANTS
    Calls,     \* client requests
    Outputs,   \* what a computation may yield: texts, or adapter digests
    None,
    MaxEnds    \* bound: process ends in a behaviour

ASSUME TapAssumption ==
    /\ None \notin Calls \cup Outputs
    /\ MaxEnds \in Nat

VARIABLES
    demo,      \* which of the two demos is deployed
    status,    \* of each process
    ends,      \* how often each process has ended (history)
    counter,   \* _id_counter of the Gateway
    gateway,   \* each call's handler in the Gateway, and what its client got
    request,   \* each call's signed request envelope
    run,       \* the Gateway's run that numbered it (history)
    tap,       \* each call's handler in the Tap
    host,      \* each call's handler in the Host cluster
    answer,    \* each call's signed response envelope
    answered,  \* the Host's run that answered it (history)
    copy,      \* each call's tap copy: _async_verify and the handler of /verify
    trainer,   \* holder of each cluster's train_lock
    disk,      \* digests with a directory under the Host's adapters_dir
    adapters,  \* digests in the Host's STATE.adapters
    fetched,   \* what the client's GET /adapter/<digest> returned
    alarms     \* the records of alarm.jsonl

gatewayVars == <<counter, gateway, request, run>>
hostVars    == <<host, answer, answered, disk, adapters>>
vars == <<demo, status, ends, gatewayVars, tap, hostVars, copy, trainer, fetched, alarms>>

-----------------------------------------------------------------------------

Clusters  == {"host", "recomp"}
Processes == {"gateway", "tap"} \cup Clusters

(* An envelope carries an id, a payload and the HMAC of both.              *)
Sign(payload, id) == [id |-> id, payload |-> payload, signature |-> <<id, payload>>]

Verify(env) == env.signature = <<env.id, env.payload>>

NoEnvelope == Sign(None, 0)

(* start_servers.sh waits for each server's /health before the next, so    *)
(* that calls find the clusters warm.                                      *)
Init ==
    /\ demo \in {"inference", "training"}
    /\ status = [p \in Processes |-> "up"]
    /\ ends = [p \in Processes |-> 0]
    /\ counter = 0
    /\ gateway = [c \in Calls |-> "idle"]
    /\ request = [c \in Calls |-> NoEnvelope]
    /\ run = [c \in Calls |-> 0]
    /\ tap = [c \in Calls |-> "idle"]
    /\ host = [c \in Calls |-> "idle"]
    /\ answer = [c \in Calls |-> NoEnvelope]
    /\ answered = [c \in Calls |-> 0]
    /\ copy = [c \in Calls |-> "idle"]
    /\ trainer = [k \in Clusters |-> None]
    /\ disk = {}
    /\ adapters = {}
    /\ fetched = [c \in Calls |-> "no"]
    /\ alarms = {}

-----------------------------------------------------------------------------
(* The Gateway.                                                            *)

(* A POST of the client: next_id() under its lock, sign(), and the POST to *)
(* the Tap.  Mutant: the counter is not incremented.                       *)
Numbered(c, n) ==
    /\ status["gateway"] = "up"
    /\ gateway[c] = "idle"
    /\ counter' = n
    /\ request' = [request EXCEPT ![c] = Sign(c, n)]
    /\ run' = [run EXCEPT ![c] = ends["gateway"]]
    /\ gateway' = [gateway EXCEPT ![c] = "waiting"]
    /\ UNCHANGED <<demo, status, ends, tap, hostVars, copy, trainer, fetched, alarms>>

UncountedAccepts(c) == Numbered(c, 1)

GatewayAccepts(c) == Numbered(c, counter + 1)

(* The Tap's 200 is read: 200 for the client, 502 if the signature fails.  *)
GatewayReturns(c) ==
    /\ gateway[c] = "waiting"
    /\ tap[c] \in {"sent", "done"}
    /\ gateway' = [gateway EXCEPT ![c] = IF Verify(answer[c]) THEN "ok" ELSE "error"]
    /\ UNCHANGED <<demo, status, ends, counter, request, run, tap, hostVars, copy, trainer,
                   fetched, alarms>>

(* 502: the Tap cannot be reached, has gone or answers with an error, or   *)
(* urlopen's timeout (300 s, 600 s for training) has passed.               *)
GatewayGivesUp(c) ==
    /\ gateway[c] = "waiting"
    /\ gateway' = [gateway EXCEPT ![c] = "error"]
    /\ UNCHANGED <<demo, status, ends, counter, request, run, tap, hostVars, copy, trainer,
                   fetched, alarms>>

Gateway(c) == GatewayAccepts(c) \/ GatewayReturns(c) \/ GatewayGivesUp(c)

-----------------------------------------------------------------------------
(* The Tap.                                                                *)

TapReceives(c) ==
    /\ status["tap"] = "up"
    /\ gateway[c] = "waiting"
    /\ tap[c] = "idle"
    /\ tap' = [tap EXCEPT ![c] = IF Verify(request[c]) THEN "waiting" ELSE "error"]
    /\ UNCHANGED <<demo, status, ends, gatewayVars, hostVars, copy, trainer, fetched, alarms>>

(* The Host's 200 is read and goes to the Gateway (_send_json(200)).  A    *)
(* Gateway that has hung up makes the write raise, or not, as its reset    *)
(* has arrived or not; the exception ends the handler.                     *)
TapReleases(c) ==
    /\ tap[c] = "waiting"
    /\ host[c] = "answered"
    /\ \E next \in {"sent", "broken"} :
          /\ next = "broken" => gateway[c] # "waiting"
          /\ tap' = [tap EXCEPT ![c] = IF Verify(answer[c]) THEN next ELSE "error"]
    /\ UNCHANGED <<demo, status, ends, gatewayVars, hostVars, copy, trainer, fetched, alarms>>

(* The next statement of the handler starts the thread of _async_verify.   *)
TapSpawns(c) ==
    /\ tap[c] = "sent"
    /\ tap' = [tap EXCEPT ![c] = "done"]
    /\ copy' = [copy EXCEPT ![c] = "spawned"]
    /\ UNCHANGED <<demo, status, ends, gatewayVars, hostVars, trainer, fetched, alarms>>

(* 502: the Host cannot be reached, is gone, answers with an error, or has *)
(* not answered in time.                                                   *)
TapGivesUp(c) ==
    /\ tap[c] = "waiting"
    /\ tap' = [tap EXCEPT ![c] = "error"]
    /\ UNCHANGED <<demo, status, ends, gatewayVars, hostVars, copy, trainer, fetched, alarms>>

Tap(c) == TapReceives(c) \/ TapReleases(c) \/ TapSpawns(c) \/ TapGivesUp(c)

-----------------------------------------------------------------------------
(* The clusters.  A cluster that is not warm answers 503.                  *)

Acquire(k, c) == trainer[k] = None /\ trainer' = [trainer EXCEPT ![k] = c]

Release(k) == trainer' = [trainer EXCEPT ![k] = None]

(* do_POST of the Host down to the computation; in training the handler    *)
(* waits for train_lock next.                                              *)
HostReceives(c) ==
    /\ status["host"] # "down"
    /\ tap[c] = "waiting"
    /\ host[c] = "idle"
    /\ host' = [host EXCEPT ![c] =
                    IF status["host"] = "cold" \/ ~Verify(request[c]) THEN "failed"
                    ELSE IF demo = "training" THEN "queued" ELSE "computing"]
    /\ UNCHANGED <<demo, status, ends, gatewayVars, tap, answer, answered, disk, adapters,
                   copy, trainer, fetched, alarms>>

(* The inference server's text comes back and is signed with the request's *)
(* id.                                                                     *)
HostInfers(c, o) ==
    /\ demo = "inference"
    /\ host[c] = "computing"
    /\ host' = [host EXCEPT ![c] = "answered"]
    /\ answer' = [answer EXCEPT ![c] = Sign(o, request[c].id)]
    /\ answered' = [answered EXCEPT ![c] = ends["host"]]
    /\ UNCHANGED <<demo, status, ends, gatewayVars, tap, disk, adapters, copy, trainer,
                   fetched, alarms>>

HostTakesLock(c) ==
    /\ host[c] = "queued"
    /\ Acquire("host", c)
    /\ host' = [host EXCEPT ![c] = "computing"]
    /\ UNCHANGED <<demo, status, ends, gatewayVars, tap, answer, answered, disk, adapters,
                   copy, fetched, alarms>>

(* train_once has written an adapter into a temporary directory, which     *)
(* becomes the directory of its digest; if there is one already, the older *)
(* one stays.  Mutant: the older one is removed.                           *)
Trained(c, o, directories) ==
    /\ demo = "training"
    /\ host[c] = "computing"
    /\ host' = [host EXCEPT ![c] = "trained"]
    /\ answer' = [answer EXCEPT ![c] = Sign(o, request[c].id)]
    /\ disk' = directories
    /\ UNCHANGED <<demo, status, ends, gatewayVars, tap, answered, adapters, copy, trainer,
                   fetched, alarms>>

RemovesOlder(c, o) == Trained(c, o, (disk \ {o}) \cup ({o} \ disk))

HostTrains(c, o) == Trained(c, o, disk \cup {o})

(* The digest enters STATE.adapters, whether its directory is new or not;  *)
(* train_lock is released, and the signed answer goes out.  Mutant: only a *)
(* digest that no other call has is entered.                               *)
Registered(c, digests) ==
    /\ host[c] = "trained"
    /\ host' = [host EXCEPT ![c] = "answered"]
    /\ adapters' = adapters \cup digests
    /\ answered' = [answered EXCEPT ![c] = ends["host"]]
    /\ Release("host")
    /\ UNCHANGED <<demo, status, ends, gatewayVars, tap, answer, disk, copy, fetched, alarms>>

RegistersNew(c) ==
    Registered(c, {answer[c].payload} \ {answer[d].payload : d \in Calls \ {c}})

HostRegisters(c) == Registered(c, {answer[c].payload})

(* The computation raises: 500 or 502, and a training lock is released.    *)
HostFails(c) ==
    /\ host[c] = "computing"
    /\ host' = [host EXCEPT ![c] = "failed"]
    /\ IF demo = "training" THEN Release("host") ELSE UNCHANGED trainer
    /\ UNCHANGED <<demo, status, ends, gatewayVars, tap, answer, answered, disk, adapters,
                   copy, fetched, alarms>>

(* GET /adapter/<digest>.                                                  *)
ClientFetches(c) ==
    /\ demo = "training"
    /\ status["host"] # "down"
    /\ gateway[c] = "ok"
    /\ fetched[c] = "no"
    /\ fetched' = [fetched EXCEPT ![c] =
                       IF answer[c].payload \in adapters \cap disk THEN "saved" ELSE "unknown"]
    /\ UNCHANGED <<demo, status, ends, gatewayVars, tap, hostVars, copy, trainer, alarms>>

InferenceHost(c) == HostReceives(c) \/ HostFails(c) \/ \E o \in Outputs : HostInfers(c, o)

TrainingHost(c) == HostTakesLock(c) \/ HostRegisters(c) \/ \E o \in Outputs : HostTrains(c, o)

(* One line of alarm.jsonl; call and run are history.                      *)
LogAlarm(c, reason, actual) ==
    alarms' = alarms \cup {[call |-> c, run |-> run[c], id |-> request[c].id, reason |-> reason,
                            expected |-> answer[c].payload, actual |-> actual]}

(* The POST of _async_verify arrives: unreachable, 503, an alarm, or on to *)
(* the computation.                                                        *)
RecompReceives(c) ==
    /\ copy[c] = "spawned"
    /\ LET good  == Verify(request[c]) /\ Verify(answer[c])
           sound == good /\ request[c].id = answer[c].id
       IN  /\ copy' = [copy EXCEPT ![c] =
                           CASE status["recomp"] = "down" -> "lost"
                             [] status["recomp"] = "cold" -> "refused"
                             [] status["recomp"] = "up" /\ ~sound -> "alarmed"
                             [] OTHER -> IF demo = "training" THEN "queued" ELSE "computing"]
           /\ IF status["recomp"] = "up" /\ ~sound
              THEN LogAlarm(c, IF good THEN "id_mismatch" ELSE "bad_signature", None)
              ELSE UNCHANGED alarms
    /\ UNCHANGED <<demo, status, ends, gatewayVars, tap, hostVars, trainer, fetched>>

RecompTakesLock(c) ==
    /\ copy[c] = "queued"
    /\ Acquire("recomp", c)
    /\ copy' = [copy EXCEPT ![c] = "computing"]
    /\ UNCHANGED <<demo, status, ends, gatewayVars, tap, hostVars, fetched, alarms>>

(* Equal is verified; anything else is an alarm.                           *)
Judges(c, o, reason) ==
    IF answer[c].payload = o
    THEN copy' = [copy EXCEPT ![c] = "verified"] /\ UNCHANGED alarms
    ELSE copy' = [copy EXCEPT ![c] = "alarmed"] /\ LogAlarm(c, reason, o)

RecompInfers(c, o) ==
    /\ demo = "inference"
    /\ copy[c] = "computing"
    /\ Judges(c, o, "output_mismatch")
    /\ UNCHANGED <<demo, status, ends, gatewayVars, tap, hostVars, trainer, fetched>>

(* The lock is released before the digests are compared.                   *)
RecompTrains(c, o) ==
    /\ demo = "training"
    /\ copy[c] = "computing"
    /\ Judges(c, o, "digest_mismatch")
    /\ Release("recomp")
    /\ UNCHANGED <<demo, status, ends, gatewayVars, tap, hostVars, fetched>>

(* The computation raises: 500, which the Tap only logs.  Mutant: the lock *)
(* is kept.                                                                *)
Raises(c) ==
    /\ copy[c] = "computing"
    /\ copy' = [copy EXCEPT ![c] = "failed"]
    /\ UNCHANGED <<demo, status, ends, gatewayVars, tap, hostVars, fetched, alarms>>

RaisesLocked(c) == Raises(c) /\ UNCHANGED trainer

RecompFails(c) ==
    Raises(c) /\ IF demo = "training" THEN Release("recomp") ELSE UNCHANGED trainer

InferenceRecomp(c) == RecompReceives(c) \/ RecompFails(c) \/ \E o \in Outputs : RecompInfers(c, o)

TrainingRecomp(c) == RecompTakesLock(c) \/ \E o \in Outputs : RecompTrains(c, o)

-----------------------------------------------------------------------------
(* Processes end (a signal, an exit, the machine) and are started again.   *)
(* Handlers that die with their process leave the value in gone.           *)

Ends(p) ==
    /\ status[p] # "down"
    /\ ends["gateway"] + ends["tap"] + ends["host"] + ends["recomp"] < MaxEnds
    /\ status' = [status EXCEPT ![p] = "down"]
    /\ ends' = [ends EXCEPT ![p] = @ + 1]

Drop(handler, alive, gone) == [c \in Calls |-> IF handler[c] \in alive THEN gone ELSE handler[c]]

GatewayEnds ==
    /\ Ends("gateway")
    /\ counter' = 0
    /\ gateway' = Drop(gateway, {"waiting"}, "gone")
    /\ UNCHANGED <<demo, request, run, tap, hostVars, copy, trainer, fetched, alarms>>

(* A copy that the recomputation cluster already has is not disturbed.     *)
TapEnds ==
    /\ Ends("tap")
    /\ tap' = Drop(tap, {"waiting", "sent"}, "gone")
    /\ copy' = Drop(copy, {"spawned"}, "lost")
    /\ UNCHANGED <<demo, gatewayVars, hostVars, trainer, fetched, alarms>>

(* STATE.adapters is memory, the directories are not.                      *)
HostEnds ==
    /\ Ends("host")
    /\ host' = Drop(host, {"queued", "computing", "trained"}, "gone")
    /\ adapters' = {}
    /\ Release("host")
    /\ UNCHANGED <<demo, gatewayVars, tap, answer, answered, disk, copy, fetched, alarms>>

RecompEnds ==
    /\ Ends("recomp")
    /\ copy' = Drop(copy, {"queued", "computing"}, "lost")
    /\ Release("recomp")
    /\ UNCHANGED <<demo, gatewayVars, tap, hostVars, fetched, alarms>>

Starts(p) ==
    /\ status[p] = "down"
    /\ status' = [status EXCEPT ![p] = IF p \in Clusters THEN "cold" ELSE "up"]
    /\ UNCHANGED <<demo, ends, gatewayVars, tap, hostVars, copy, trainer, fetched, alarms>>

(* The boot thread: the child server becomes healthy and answers a warm-up *)
(* call, or the imports succeed.                                           *)
Warms(k) ==
    /\ status[k] = "cold"
    /\ status' = [status EXCEPT ![k] = "up"]
    /\ UNCHANGED <<demo, ends, gatewayVars, tap, hostVars, copy, trainer, fetched, alarms>>

HostBoots == Warms("host")

RecompBoots == Warms("recomp")

(* With a child that stays unhealthy the shim exits (os._exit), which      *)
(* HostEnds and RecompEnds allow; with imports that fail the training      *)
(* cluster stays cold, so no fairness is assumed of the two boots.         *)
Next ==
    \/ \E c \in Calls : \/ Gateway(c) \/ Tap(c)
                        \/ InferenceHost(c) \/ TrainingHost(c) \/ ClientFetches(c)
                        \/ InferenceRecomp(c) \/ TrainingRecomp(c)
    \/ GatewayEnds \/ TapEnds \/ HostEnds \/ RecompEnds
    \/ HostBoots \/ RecompBoots
    \/ \E p \in Processes : Starts(p)

(* Handlers are threads that run; urlopen's timeouts and the two locks'    *)
(* releases wake them; a computation ends, by a result or an exception.    *)
Fairness ==
    \A c \in Calls :
        /\ WF_vars(GatewayReturns(c) \/ GatewayGivesUp(c))
        /\ WF_vars(TapReleases(c) \/ TapGivesUp(c))
        /\ WF_vars(TapSpawns(c))
        /\ WF_vars(HostTakesLock(c))
        /\ WF_vars(HostRegisters(c))
        /\ WF_vars(HostFails(c) \/ \E o \in Outputs : HostInfers(c, o) \/ HostTrains(c, o))
        /\ WF_vars(RecompReceives(c))
        /\ WF_vars(RecompTakesLock(c))
        /\ WF_vars(RecompFails(c) \/ \E o \in Outputs : RecompInfers(c, o) \/ RecompTrains(c, o))

Spec == Init /\ [][Next]_vars /\ Fairness

-----------------------------------------------------------------------------

TypeOK ==
    /\ demo \in {"inference", "training"}
    /\ status \in [Processes -> {"down", "cold", "up"}]
    /\ ends \in [Processes -> Nat]
    /\ counter \in Nat
    /\ gateway \in [Calls -> {"idle", "waiting", "ok", "error", "gone"}]
    /\ \A c \in Calls : request[c].id \in Nat /\ run[c] \in Nat /\ answered[c] \in Nat
    /\ \A c \in Calls : answer[c].payload \in Outputs \cup {None}
    /\ tap \in [Calls -> {"idle", "waiting", "sent", "done", "broken", "error", "gone"}]
    /\ host \in [Calls -> {"idle", "queued", "computing", "trained", "answered", "failed", "gone"}]
    /\ copy \in [Calls -> {"idle", "spawned", "queued", "computing", "verified", "alarmed",
                           "refused", "failed", "lost"}]
    /\ trainer \in [Clusters -> Calls \cup {None}]
    /\ adapters \subseteq disk /\ disk \subseteq Outputs
    /\ fetched \in [Calls -> {"no", "saved", "unknown"}]

(* An alarm is no false accusation and says whom to ask: it names, within  *)
(* the Gateway's run, exactly one call, whose released answer is the one   *)
(* that differs from the recomputation; and no call has two.  Ids start    *)
(* over with every run of the Gateway, alarm.jsonl does not.               *)
AlarmIsFounded ==
    \A a \in alarms :
        /\ a.expected # a.actual
        /\ {c \in Calls : request[c].id = a.id /\ run[c] = a.run} = {a.call}
        /\ tap[a.call] = "done"
        /\ answer[a.call] = Sign(a.expected, a.id)
        /\ \A b \in alarms : a.call = b.call => a = b

(* A client that holds a digest may fetch the adapter for as long as the   *)
(* Host that answered runs: "unknown digest" is only ever the answer of a  *)
(* later run, even when the adapter was trained before, or twice.          *)
ReplyIsFetchable ==
    \A c \in Calls : fetched[c] = "unknown" => answered[c] < ends["host"]

(* Fire-and-forget, and yet: an answer the client holds is verified or     *)
(* raises an alarm, unless the Tap or the recomputation cluster has ended  *)
(* since ("lost"), the cluster was not warm or the recomputation raised.   *)
ReleasedIsJudged ==
    \A c \in Calls :
        gateway[c] = "ok" ~> \/ copy[c] \in {"verified", "alarmed", "refused", "failed"}
                             \/ copy[c] = "lost" /\ ends["tap"] + ends["recomp"] > 0
                             \/ tap[c] = "gone" /\ ends["tap"] > 0
=============================================================================
