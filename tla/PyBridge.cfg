\* Two threads, an engine with an oracle and one without, two handles.
SPECIFICATION Spec
CONSTANTS
  asking = asking
  plain = plain
  Thread = {t1, t2}
  Engine <- Engines
  Asking <- OneAsks
  Handle = {h1, h2}
  Nobody = Nobody
  NoHandle = NoHandle
  MaxClaim = 2
INVARIANT OrphansAreTold
PROPERTY HostCallsReturn
