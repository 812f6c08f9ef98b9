SPECIFICATION FairSpec
CONSTANTS
  hello = hello
  question = question
  delivered = delivered
  quality = quality
  customer = customer
  sent1 = sent1
  Messages = {hello, question}
  Statuses = {delivered}
  Notices = {quality}
  Customers = {customer}
  Sender <- MCSender
  At <- MCAt
  Wamids = {sent1}
  About <- MCAbout
  Report <- MCReport
  Envelopes <- MCEnvelopes
  Handlers = {h1, h2}
  MaxMishaps = 2
  MaxRepeats = 1
INVARIANTS
  OnCardOnce
  UnprocessedIsOwned
PROPERTIES
  DeliverySettles
  ImplementsInbox
CHECK_DEADLOCK FALSE
