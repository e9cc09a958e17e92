CONSTANTS
    a = a
    b = b
    tm = tm
    hr = hr
    us = us
    Threads = {a, b}
    Timers = {tm}
    HrTimers = {hr}
    Users = {us}
    Levels = {}
    Nums = {1}
    MaxHandlers = 1
CHECK_DEADLOCK FALSE
SPECIFICATION FairSpec
INVARIANTS TypeOK NoTriggerUnseen TimerAlive
PROPERTIES OnlyResetStrands Delivered
