CONSTANTS
  a = a b = b legacy = legacy e = e o1 = o1
  Id = {a, b, legacy, e}
  Onboarded = {a, b}
  Legacy = legacy
  Env = {e}
  Owner = {o1}
  OwnerOf <- OneOwner
  RepoScoped = {a, b, e}
  Handler = {h1, h2}
  Events = {"crash", "server", "environment", "direct"}
SPECIFICATION Spec
INVARIANTS RefusedOnlyIfConfigured
