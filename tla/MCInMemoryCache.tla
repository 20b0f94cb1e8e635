--------------------------- MODULE MCInMemoryCache --------------------------
(* Small instances of InMemoryCache: room for two of three keys.           *)
EXTENDS InMemoryCache, TLC

CONSTANTS k1, k2, k3, c1, c2

Smallest == -2

Ask(op, keys, value, ttl) == [op |-> op, keys |-> keys, value |-> value, ttl |-> ttl]

Calls ==
  (c1 :> {Ask("get", {k1, k2}, 0, 0), Ask("set", {k1, k3}, 0, 1),
          Ask("add", {k1}, 1, 0), Ask("delete", {k1, k2}, 0, 0)})
  @@
  (c2 :> {Ask("get", {k1}, 0, 0), Ask("has", {k2}, 0, 0), Ask("set", {k2}, Word, 0),
          Ask("add", {k1}, 1, 0), Ask("subtract", {k1}, 1, 0),
          Ask("subtract", {k1}, Lowest, 0), Ask("clear", {k1}, 0, 0)})
=============================================================================
