SPECIFICATION Spec
CONSTANTS
  book = book  chat = chat  c1 = c1  c2 = c2
  NoPackage = NoPackage
  Unlimited = Unlimited
  Packages = {book, chat}
  Kinds = {"text"}
  Limit <- MCLimit
  StartedAt <- MCStartedAt
  Handlers = {h1, h2}
  Conversations = {c1, c2}
  Serves <- MCServes
  Mode <- MCMode
CONSTRAINT MessagesBound
SYMMETRY Symmetry
INVARIANTS
  MessageOverrunBounded
  MessagesAreMetered
  WorkflowOnlyForSingle
