----------------------------- MODULE MCPgStore -----------------------------
\* The demo user, a vehicle of theirs and a session for that vehicle.
EXTENDS PgStore

MCPgHome == [demo |-> "users", scan |-> "sessions", car |-> "vehicles"]
MCPgParents == [demo |-> {}, scan |-> {"demo"}, car |-> {"demo"}]
MCPgLinks == [demo |-> {}, scan |-> {"car"}, car |-> {}]
=============================================================================
