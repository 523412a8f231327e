----------------------------- MODULE MCPagedEeprom -----------------------------
\* Both drivers on chips of three or two pages; callers of the SPI driver only
\* move downward.
EXTENDS PagedEeprom

BothChips == {[driver |-> "spi", page |-> 2, upward |-> FALSE],
              [driver |-> "i2c", page |-> 3, upward |-> TRUE]}
================================================================================
