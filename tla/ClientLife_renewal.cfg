\* Main and one thread of the pool renew the server's client: at start, after a
\* closed connection, after an answer of the modem, and once too early.
CONSTANTS
  Worker = {w1}
  MaxClients = 5
  MaxDrops = 1
  MaxRedirects = 1
  MaxEarly = 1
SPECIFICATION Spec
INVARIANTS TypeOK FreedOnlyWhileReplaced WiredOnce
PROPERTIES ReplacedFallSilent Heals
