SPECIFICATION Spec
CONSTANTS
  a = a  b1 = b1  b2 = b2  c = c  d = d
  Paths = {a, b1, b2, c, d}
  Name <- MCName
  Digest <- MCDigest
  Refs <- MCRefs
  NarSize <- MCNarSize
  Queries <- MCQueries
  PageSize = 2
  None = None
\* The viewer may be at the end of the list, and every row in the table.
CHECK_DEADLOCK FALSE
INVARIANTS PagesInOrder LastPageCompletes LinksLeadSomewhere
