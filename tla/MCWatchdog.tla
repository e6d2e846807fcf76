------------------------------- MODULE MCWatchdog -----------------------------
EXTENDS Watchdog

MCRequests == {
  <<"trigger", "length", "blank", "body">>,
  <<"trigger", "header", "blank">>,
  <<"other", "length", "blank", "body">>,
  <<"trigger", "length", "blank", "badbody">>,
  <<"trigger", "badlength", "blank">>,
  <<"garbage">>}
================================================================================
