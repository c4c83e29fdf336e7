\* Two requests at a time of two browsers, for two emails.
CONSTANTS
  Ids = {i1, i2, i3}
  Emails = {e1, e2}
  Browsers = {b1, b2}
  Calls = {c1, c2}
  None = None
SYMMETRY MCSymmetry
SPECIFICATION Spec
INVARIANT SignedInIsReal
INVARIANT OneAccountPerEmail
PROPERTY RegisteredStay
