------------------------------ MODULE MCLayering -------------------------------
(***************************************************************************)
(* Layering with two base fields, the environment and the port, and small  *)
(* applications: every single field a struct may declare, at the top level *)
(* and in a table, and the pairs in which one field's fate hangs on the    *)
(* other's.                                                                *)
(***************************************************************************)
EXTENDS Layering

Declare(owner, name, table, kind, hasEnv, hasDefault) ==
  [owner |-> owner, name |-> name, table |-> table, kind |-> kind,
   env |-> hasEnv, default |-> hasDefault]

MCBase == << Declare("base", "env", "", "environment", TRUE, TRUE),
             Declare("base", "port", "", "required", TRUE, TRUE) >>

Kinds == {<<"required", TRUE>>, <<"required", FALSE>>, <<"optional", FALSE>>}

Single(name, table) ==
  {Declare("app", name, table, k[1], e, k[2]) : k \in Kinds, e \in BOOLEAN}

(* A field with a base field's name, at the top level and in a table.       *)
Ambiguous == {Declare("app", "port", t, "required", TRUE, FALSE) : t \in {"", "cache"}}

Alone == Single("size", "") \cup Single("ttl", "cache") \cup Ambiguous

Needed(name, table, hasEnv) == Declare("app", name, table, "required", hasEnv, FALSE)

Pairs == { << Needed("url", "", TRUE), Needed("ttl", "cache", FALSE) >>,
           << Needed("url", "", FALSE), Declare("app", "ttl", "cache", "optional", TRUE, FALSE) >>,
           << Needed("ttl", "cache", TRUE), Declare("app", "size", "cache", "required", FALSE, TRUE) >>,
           << Needed("ttl", "cache", FALSE), Needed("ttl", "disk", FALSE) >>,
           << Needed("url", "", TRUE), Needed("port", "", TRUE) >> }

MCApps == {<<>>} \cup {<<f>> : f \in Alone} \cup Pairs

MCReserved == {"port", "env", "shutdown_timeout", "name", "version",
               "otel_endpoint", "otel_headers"}
===============================================================================
