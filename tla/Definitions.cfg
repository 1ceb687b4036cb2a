SPECIFICATION Spec
CONSTANTS
  sv1 = sv1
  sv2 = sv2
  pr1 = pr1
  pr2 = pr2
  ep1 = ep1
  n1 = n1
  n2 = n2
  n3 = n3
  o1 = o1
  o2 = o2
  tag = tag
  k1 = k1
  k2 = k2
  Services = {sv1, sv2}
  Providers = {pr1, pr2}
  Endpoints = {ep1}
  Slugs = {n1, n2}
  Names = {n1, n2, n3}
  Origins = {o1, o2}
  Tags = {tag}
  Texts <- SomeTexts
  Half = 2
  Secrets = {k1, k2}
  None = None
  Env = Env
  Unset = Unset
  Tasks = {t1, t2}
  Start <- FirstRows
  Changes <- SomeChanges
  Packs <- SomePacks
  MaxRequests = 3
SYMMETRY Symmetry
CHECK_DEADLOCK FALSE
INVARIANTS
  RowsAreSound
  ValidUnlessOvertaken
  ImportsLand
  PlansAreFaithful
  ExportsReproduceThePlan
PROPERTIES
  BindingsAreSetByHand
