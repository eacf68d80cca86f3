SPECIFICATION CanSpec
CONSTANTS
  Motors = {m0, m1}
  OtherId = vesc
  Data = {d1, d2, d3}
  NoData = none
  Dev = can0
  Links = {can0, vcan0}
INVARIANTS CanTypeOK BusReady MisuseOnlyAfterDelete DescriptorOwned FeedbackIsOwn
CHECK_DEADLOCK FALSE
