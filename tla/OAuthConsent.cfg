SPECIFICATION Spec
CONSTANTS
  h1 = h1  h2 = h2  u1 = u1  mcp = mcp  other = other  nobody = nobody
  Handlers <- MCHandlers
  Users <- MCUsers
  Scopes <- MCScopes
  Nobody <- nobody
  CodeTTL = 1
  ConsentTTL = 1
  AccessTTL = 1
  RefreshTTL = 2
  FamilyTTL = 2
  MaxCalls = 6
  Horizon = 3
SYMMETRY Symmetric
INVARIANTS
  ApprovalIsRemembered
