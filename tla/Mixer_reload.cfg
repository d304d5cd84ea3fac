SPECIFICATION Spec
CONSTANTS
  a1 = a1
  a2 = a2
  b1 = b1
  a = a
  b = b
  Sessions = {a1, a2, b1}
  Names = {a, b}
  NameOf <- MCNameOf
  Special = {}
  Sliders = {1, 2}
  Unmapped = Unmapped
  Mappings <- MCMappings
  Nobody = Nobody
SYMMETRY Symmetry
INVARIANT BoundFollowsItsSlider
