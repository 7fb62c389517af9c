\* SaveJob never publishes.
CONSTANTS
    Pages = {g1}
    Publishers = {p1}
    Capacity = 2
    MaxEvents = 2
    Statuses = {"PENDING", "PROCESSING"}
SPECIFICATION EventSpec
PROPERTIES
    ChangesAreTold
\* pages have gone and all events of the instance are published
CHECK_DEADLOCK FALSE
