--------------------------- MODULE MCRemoteConfig ---------------------------
(* An instance of RemoteConfig with two values or three per register, one   *)
(* of them out of its range, and every pair of halves.                      *)
EXTENDS RemoteConfig

MCOffered == [sensor |-> {0, 2, 3}, flow |-> {2, 3}, debounce |-> {1, 2},
              temp |-> {0, 1}, high |-> {0, 1}, low |-> {0, 1}]
MCLegal == [sensor |-> {2, 3}, flow |-> {2, 3}, debounce |-> {1, 2},
            temp |-> {1}]
MCLegalPulses == {<<0, 1>>, <<1, 0>>}
MCDefaults == [sensor |-> 3, flow |-> 2, debounce |-> 1, temp |-> 1,
               high |-> 0, low |-> 1, sequence |-> 1]
=============================================================================
