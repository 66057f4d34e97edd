CONSTANTS
    Senders = {s1, s2}
    Creators = {c1, c2}
    Ips = {i1, i2}
    Account = account
    AccountSecond = 2
    AccountMinute = 3
    IpSecond = 1
    IpMinute = 2
    SecondDuration = 2
    MinuteDuration = 3
    MaxCapacity = 1
    MaxTime = 3
SPECIFICATION Spec
INVARIANT IpLimitKept
