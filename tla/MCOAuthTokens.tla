---- MODULE MCOAuthTokens ----
EXTENDS OAuthTokens, TLC

====
