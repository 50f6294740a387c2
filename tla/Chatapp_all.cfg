SPECIFICATION Spec
CONSTANTS
  ali = ali
  bora = bora
  secret = secret
  cool = cool
  hi = hi
  NoName = NoName
  Free = Free
  Names = {ali, bora}
  Passwords = {secret}
  Groups = {cool}
  Texts = {hi}
  MaxId = 5
  MaxSessions = 2
  MaxTyped = 4
  MaxRestarts = 1
  FirstFiles <- AllFiles
  NewNames = {bora}
  WordLists <- Words
INVARIANTS TypeOK FriendshipsSound Aligned Owed Genuine MapOpen WedgedOnlyByCrash
PROPERTY TornStays
CHECK_DEADLOCK FALSE
