----------------------------- MODULE VllmService -----------------------------
(***************************************************************************)
(* What the serving wrapper promises, without threads, locks or process    *)
(* objects: there is one engine slot.  An engine is started from one       *)
(* manifest, command line and environment alike, only when the slot is     *)
(* empty; the manifest on display is the one of the latest start; and the  *)
(* server leaves of its own accord only when the slot is empty.            *)
(***************************************************************************)
CONSTANTS Manifests, BootManifest

VARIABLES
    engine,     \* state of the engine in the slot, "empty" if there is none
    config,     \* the manifest the latest engine was started from
    published,  \* the manifest on display
    server      \* "booting", "up", "stopping", "leaving" or "down"

vars == <<engine, config, published, server>>

Init ==
    /\ engine = "empty"
    /\ config = BootManifest
    /\ published = BootManifest
    /\ server = "booting"

Start(m) ==
    /\ engine = "empty"
    /\ server # "down"
    /\ server = "booting" => m = BootManifest
    /\ engine' = "loading"
    /\ config' = m
    /\ UNCHANGED <<published, server>>

Ready ==
    /\ engine = "loading"
    /\ engine' = "healthy"
    /\ UNCHANGED <<config, published, server>>

Hang ==
    /\ engine \in {"loading", "healthy"}
    /\ engine' = "hung"
    /\ UNCHANGED <<config, published, server>>

(* A signal to the server ends the engine and the server together.          *)
Signalled ==
    \/ UNCHANGED server
    \/ server \in {"up", "leaving"} /\ server' = "stopping"

(* Killed, but not gone yet: the slot is still taken.                       *)
Kill ==
    /\ engine \in {"loading", "healthy", "hung"}
    /\ engine' = "killed"
    /\ \/ Signalled
       \/ server = "booting" /\ server' = "down"
    /\ UNCHANGED <<config, published>>

Die ==
    /\ engine # "empty"
    /\ engine' = "empty"
    /\ Signalled
    /\ UNCHANGED <<config, published>>

Publish ==
    /\ server \notin {"booting", "down"}
    /\ published' = config
    /\ UNCHANGED <<engine, config, server>>

Open ==
    /\ server = "booting"
    /\ engine = "healthy"
    /\ server' = "up"
    /\ UNCHANGED <<engine, config, published>>

(* The engine is gone and nobody is bringing up another one.                *)
GiveUp ==
    /\ server = "up"
    /\ engine = "empty"
    /\ server' = "leaving"
    /\ UNCHANGED <<engine, config, published>>

Stop ==
    /\ server \in {"up", "leaving"}
    /\ server' = "stopping"
    /\ UNCHANGED <<engine, config, published>>

Leave ==
    /\ server \in {"booting", "stopping", "leaving"}
    /\ server' = "down"
    /\ UNCHANGED <<engine, config, published>>

Next == (\E m \in Manifests : Start(m)) \/ Ready \/ Hang \/ Kill \/ Die \/ Publish
        \/ Open \/ GiveUp \/ Stop \/ Leave

Spec == Init /\ [][Next]_vars
=============================================================================
