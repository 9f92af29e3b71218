---- MODULE MCAcpProcess ----
EXTENDS AcpProcess, TLC

====
