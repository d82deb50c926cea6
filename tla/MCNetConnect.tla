---------------------------- MODULE MCNetConnect ----------------------------
EXTENDS NetConnect

Options(types, flags) ==
    [type : types, addrs : {2}, source : flags, reuse : flags, block : BOOLEAN,
     timeout : BOOLEAN, command : BOOLEAN]
AllRequests == Options({"tcp", "unix", "fd"}, BOOLEAN)
=============================================================================
