---------------------------- MODULE MCHttpFront ----------------------------
(* An instance of HttpFront for TLC. *)
EXTENDS HttpFront

CONSTANTS k1

MCCatalogs ==
    {[mode |-> [elevation |-> "monitor", async |-> "enforce"],
      status |-> [k \in Consumers |-> "active"],
      permits |-> Consumers \X Gated],
     [mode |-> [elevation |-> "enforce", async |-> "monitor"],
      status |-> [k \in Consumers |-> "inactive"],
      permits |-> Consumers \X Gated],
     [mode |-> [elevation |-> "none", async |-> "enforce"],
      status |-> [k \in Consumers |-> "active"],
      permits |-> {}]}

C(route, who, body) == [route |-> route, who |-> who, body |-> body]

MCCalls ==
    {C("elevation", k1, "good"), C("elevation", NoConsumer, "large"),
     C("async", k1, "good"), C("async", NoConsumer, "bad"),
     C("prime", NoConsumer, "bad"), C("options", NoConsumer, "bad")}

=============================================================================
