\* Up to three addresses of every kind, a request of two chunks, and nobody who has to answer.
CONSTANTS
  MaxAddresses = 3
  Chunks = 2
SPECIFICATION FairSpec
INVARIANTS NothingLeft AddressesInOrder DeadlineHolds
PROPERTY TransportEnds
\* A closed connection stays closed.
CHECK_DEADLOCK FALSE
