SPECIFICATION Spec
CONSTANTS
  Ws = {w1, w2, w3}
  Mcodes = {m1, m2, m3}
  NoMcode = NoMcode
  Terminations = {"nested", "deferred"}
SYMMETRY Symmetry
INVARIANTS
  TypeOK
  AtMostOneChief
  AuthorityBacked
  StreamFollowsClients
  ChiefAnnounced
PROPERTIES
  ChiefRowStays
