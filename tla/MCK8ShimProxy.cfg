\* A server that refused its configuration, or was stopped, does nothing more.
CHECK_DEADLOCK FALSE
CONSTANTS
  Users = {u1, u2}
  Slots = {s1, s2}
SPECIFICATION Spec
SYMMETRY SlotSymmetry
INVARIANTS HeadersOfOwnUser CertificatesNotDropped
