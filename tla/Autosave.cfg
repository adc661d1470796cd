\* Edits, saves that fail, refreshes and other writers of one form.
SPECIFICATION FairSpec
CONSTANTS
  None = None
  Values = {v1, v2, v3}
INVARIANT TypeOK
INVARIANT DirtyInputIsSubmitted
PROPERTY DirtyInputSettles
