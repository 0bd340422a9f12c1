SPECIFICATION FairSpec
CONSTANTS
  a = a
  b = b
  Tasks = {a, b}
  Pins = {0, 1}
  NULL = NULL
  bad_gpio_irq_handle = bad_gpio_irq_handle
  TypeOf <- TypeOfTask
  PinsOf <- PinsOfTask
  MaxEdges <- EdgesOnPin
INVARIANTS HandlersPaired NoSpuriousCall
PROPERTIES EdgeAnswered
