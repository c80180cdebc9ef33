---------------------------- MODULE MCJsSession -----------------------------
(***************************************************************************)
(* Small instances of JsSession: two batches and a flush, tokens of three  *)
(* time units, a gateway whose key is replaced once.                       *)
(***************************************************************************)
EXTENDS JsSession

Key(scopes) == [shape |-> "key", tenant |-> "acme", scopes |-> scopes]

Request(credential, ttl, attributes) ==
  [credential |-> credential, subject |-> "ann", ttl |-> ttl, attributes |-> attributes]

User     == [user_id |-> "u1"]
OldToken == [shape |-> "jwt", signed |-> 1,
             claims |-> [jti |-> <<"old">>, iat |-> 0, exp |-> MaxTtl, tenant |-> "acme",
                         attributes |-> NoAttributes]]

\* What a customer's backend may ask: a session, one that is too long, and
\* every kind of request that the gateway refuses.
MCSessionRequests ==
  {Request(Key({"session"}), Unset, User),
   Request(Key({"ingest", "session"}), MaxTtl + 1, NoAttributes),
   Request(Key({"session"}), 0, User),
   Request(Key({"session"}), MaxTtl, [user_id |-> "u1", user_name |-> "null"]),
   Request(Key({"session"}), MaxTtl, [email |-> "x"]),
   Request(Key({"session"}), MaxTtl, [user_id |-> "too long"]),
   Request(Key({"ingest"}), MaxTtl, User),
   Request(OldToken, MaxTtl, User),
   [Request(Key({"session"}), MaxTtl, User) EXCEPT !.subject = ""]}

MCSigningKeys == {[id |-> 1, long |-> TRUE], [id |-> 2, long |-> TRUE], [id |-> 3, long |-> FALSE]}
=============================================================================
