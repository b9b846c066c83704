---------------------------- MODULE SearchMemoryMC ----------------------------
(* One sender asks for new searches with and without features and on a later    *)
(* page, changes place and features, pages on and resets both ways; the other's *)
(* search evicts it.                                                            *)
EXTENDS SearchMemory
CONSTANT asker
Ask(mode, given, page, clear) ==
  [mode |-> mode, given |-> given, page |-> page, clear |-> clear]
Requests ==
  {Ask("replace", {"city"}, 0, {}), Ask("replace", {"city", "features"}, 0, {}),
   Ask("replace", {"postal_code", "features"}, 2, {}),
   Ask("update", {"postal_code"}, 0, {}), Ask("update", {}, 2, {"features"}),
   Ask("more", {}, 0, {}),
   Ask("reset", {}, 0, {}), Ask("reset", {"city"}, 2, {})}
MCRequest ==
  [s \in Sender |-> IF s = asker THEN Requests ELSE {Ask("replace", {"city"}, 0, {})}]
=============================================================================
