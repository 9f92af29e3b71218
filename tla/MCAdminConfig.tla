---- MODULE MCAdminConfig ----
EXTENDS AdminConfig, TLC

====
