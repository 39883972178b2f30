\* The events of an aggregate in order: one poller, no late commit, and a failed
\* publish is overtaken by the next row of its batch.
CONSTANTS
  Pollers = {p1}
  Ids <- TwoRows
  Aggregates = {r1}
  None = None
  BatchSize = 2
  MaxRetries = 2
SPECIFICATION Spec
CONSTRAINT CommitsInIdOrder
PROPERTY AggregateOrder
