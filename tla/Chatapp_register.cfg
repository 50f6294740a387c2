SPECIFICATION Spec
CONSTANTS
  ali = ali
  bora = bora
  secret = secret
  cool = cool
  hi = hi
  NoName = NoName
  Free = Free
  Names = {ali, bora}
  Passwords = {secret}
  Groups = {cool}
  Texts = {hi}
  MaxId = 5
  MaxSessions = 2
  MaxTyped = 4
  MaxRestarts = 0
  FirstFiles <- OneUser
  NewNames = {bora}
  WordLists <- Words
INVARIANT OwnAccount
CHECK_DEADLOCK FALSE
