------------------------------ MODULE Metering ------------------------------
(***************************************************************************)
(* The x402 gate of the HTTP front door (app/metering.py): the catalog x402*)
(* keeps, the copy each warm instance caches, and what the gate decides    *)
(* from a copy. The requests that ask it are in HttpFront.                 *)
(***************************************************************************)
EXTENDS Naturals, Sequences

CONSTANTS
    Instances,    \* execution environments of the sync Lambda
    Consumers,    \* the consumers a credential can stand for
    NoConsumer,   \* no credential, or nobody to bill
    Catalogs,     \* the catalogs x402 may publish
    NoCatalog,    \* no catalog was ever fetched
    Enabled,      \* METERING_ENABLED
    HasToken,     \* X402_GATEWAY_TOKEN is set
    Refresh,      \* CONFIG_REFRESH_SECONDS
    MaxVersions   \* bound: catalogs x402 publishes

(* The routes that pass the gate. *)
Gated == {"elevation", "async"}

(* How a route is metered ("none": not in the catalog, or disabled), what  *)
(* x402 knows of a consumer, and who is permitted what.                    *)
Catalog ==
    [mode : [Gated -> {"none", "monitor", "enforce"}],
     status : [Consumers -> {"unknown", "inactive", "active"}],
     permits : SUBSET (Consumers \X Gated)]

ASSUME CatalogsAssumption == Catalogs # {} /\ Catalogs \subseteq Catalog

ASSUME MeteringAssumption ==
    /\ NoConsumer \notin Consumers
    /\ NoCatalog \notin Catalog
    /\ Enabled \in BOOLEAN /\ HasToken \in BOOLEAN
    /\ Refresh \in Nat \ {0}
    /\ MaxVersions \in Nat

VARIABLES
    now,      \* the time
    history,  \* the catalogs x402 has published, and since when
    cache     \* cache[i]: the version instance i holds (0: none) and fetched_at

meterVars == <<now, history, cache>>

Version == [since : Nat, catalog : Catalogs]

Cached == [version : Nat, at : Nat]

(* _cache is None. *)
Cold == [version |-> 0, at |-> 0]

MeterInit ==
    /\ now = 0
    /\ history \in {<<[since |-> 0, catalog |-> c]>> : c \in Catalogs}
    /\ cache = [i \in Instances |-> Cold]

(* x402's operator changes the catalog. *)
EditCatalog ==
    /\ Len(history) < MaxVersions
    /\ \E c \in Catalogs \ {history[Len(history)].catalog} :
          history' = Append(history, [since |-> now, catalog |-> c])
    /\ UNCHANGED <<now, cache>>

(* The catalog of a version, if there is one. *)
CatalogOf(v) == IF v = 0 THEN NoCatalog ELSE history[v].catalog

(* Mutant: the age is compared with the wrong relation. *)
FreshTooLong(i) ==
    \/ ~ HasToken
    \/ cache[i].version # 0 /\ now - cache[i].at <= Refresh

(* _get_config asks x402 unless it has no token or the copy is young.      *)
Fresh(i) ==
    \/ ~ HasToken
    \/ cache[i].version # 0 /\ now - cache[i].at < Refresh

(* A fetch succeeds with one of the versions published while it ran. *)
Install(i, v) == cache' = [cache EXCEPT ![i] = [version |-> v, at |-> now]]

(* The instance is gone, and its module globals with it. *)
Forget(i) == cache' = [cache EXCEPT ![i] = Cold]

-----------------------------------------------------------------------------
(* gate: what a catalog says of a call. *)

Metered(cat, route) == cat # NoCatalog /\ cat.mode[route] # "none"

Active(cat, who) == who # NoConsumer /\ cat.status[who] = "active"

Permitted(cat, route, who) == Active(cat, who) /\ <<who, route>> \in cat.permits

Rejects(cat, route, who) ==
    Metered(cat, route) /\ cat.mode[route] = "enforce" /\ ~ Permitted(cat, route, who)

(* record_key_hash: the consumer to bill for a call that is served. *)
RecordedConsumer(cat, route, who) ==
    IF Metered(cat, route) /\ Active(cat, who) /\ ~ Rejects(cat, route, who)
    THEN who
    ELSE NoConsumer

(* 401 for whoever is not an active consumer, else 403. *)
RejectCode(cat, who) == IF Active(cat, who) THEN "403" ELSE "401"

=============================================================================
